---- MODULE Spec2Model ----
(***************************************************************************)
(* Weather aggregation flow of the MCP demo servers: the get_weather tool  *)
(* handler with getWeatherForCity (weather-mcp app/mcp/route.ts) and the   *)
(* page-side composer fetchWeatherOpenMeteo (weather-mcp app/page.tsx).    *)
(*                                                                         *)
(* Encoding.                                                               *)
(*  - A JavaScript string is a sequence of pieces: a literal of the source *)
(*    is one piece, interpolated text is one piece per character.          *)
(*  - An optional value (T | undefined) is <<>> for undefined and <<v>>    *)
(*    for a present v.                                                     *)
(*  - A JSON number is an integer count of tenths (485 is 48.5); weather   *)
(*    codes and HTTP status codes are plain integers.                      *)
(***************************************************************************)
EXTENDS Integers, Sequences, FiniteSets, TLC

(* ---------------------------- bounds ----------------------------------- *)

MaxCityLen == 3

(* ------------------------ optional values ------------------------------ *)

None == <<>>

Some(v) == <<v>>

Opt(S) == {None} \cup {Some(v) : v \in S}

(* a ?? b *)
OrElse(o, d) == IF o = None THEN d ELSE o[1]

(* ----------------------------- strings --------------------------------- *)

Whitespace == {" "}

Alphabet == {" ", "a"}

SeqsUpTo(S, n) == UNION {[1..k -> S] : k \in 0..n}

Cities == SeqsUpTo(Alphabet, MaxCityLen)

RECURSIVE trimStart(_)
trimStart(s) ==
  IF s # <<>> /\ Head(s) \in Whitespace THEN trimStart(Tail(s)) ELSE s

RECURSIVE trimEnd(_)
trimEnd(s) ==
  IF s # <<>> /\ s[Len(s)] \in Whitespace
    THEN trimEnd(SubSeq(s, 1, Len(s) - 1))
    ELSE s

(* faulty variant: only leading whitespace is removed *)
trimStartOnly(s) == trimStart(s)

(* String.prototype.trim *)
trim(s) == trimEnd(trimStart(s))

(* encodeURIComponent on the model alphabet: letters are kept, a space     *)
(* becomes %20.                                                            *)
RECURSIVE encodeURIComponent(_)
encodeURIComponent(s) ==
  IF s = <<>> THEN <<>>
  ELSE (IF Head(s) = " " THEN <<"%", "2", "0">> ELSE <<Head(s)>>)
         \o encodeURIComponent(Tail(s))

Digit(d) == CASE d = 0 -> "0" [] d = 1 -> "1" [] d = 2 -> "2" [] d = 3 -> "3"
              [] d = 4 -> "4" [] d = 5 -> "5" [] d = 6 -> "6" [] d = 7 -> "7"
              [] d = 8 -> "8" [] d = 9 -> "9"

DigitVal(c) == CASE c = "0" -> 0 [] c = "1" -> 1 [] c = "2" -> 2 [] c = "3" -> 3
                 [] c = "4" -> 4 [] c = "5" -> 5 [] c = "6" -> 6 [] c = "7" -> 7
                 [] c = "8" -> 8 [] c = "9" -> 9

IsDigit(c) == c \in {"0", "1", "2", "3", "4", "5", "6", "7", "8", "9"}

RECURSIVE NatToStr(_)
NatToStr(n) ==
  IF n < 10 THEN <<Digit(n)>> ELSE NatToStr(n \div 10) \o <<Digit(n % 10)>>

(* Number-to-string of a template literal, for a number given in tenths:   *)
(* 485 is "48.5", 480 is "48", -5 is "-0.5", 0 is "0".                     *)
NumToStr(n) ==
  LET a == IF n < 0 THEN -n ELSE n
  IN  (IF n < 0 THEN <<"-">> ELSE <<>>)
        \o NatToStr(a \div 10)
        \o (IF a % 10 = 0 THEN <<>> ELSE <<".", Digit(a % 10)>>)

(* Decimal parsing of such a string, as the upstream does with a query     *)
(* parameter; the result is again in tenths.                               *)
RECURSIVE ParseNat(_, _)
ParseNat(s, acc) ==
  IF s = <<>> \/ ~IsDigit(Head(s)) THEN <<acc, s>>
  ELSE ParseNat(Tail(s), acc * 10 + DigitVal(Head(s)))

ParseNum(s) ==
  LET neg  == s # <<>> /\ Head(s) = "-"
      body == IF neg THEN Tail(s) ELSE s
      ip   == ParseNat(body, 0)
      rest == ip[2]
      frac == IF rest # <<>> /\ Head(rest) = "." THEN DigitVal(rest[2]) ELSE 0
      a    == ip[1] * 10 + frac
  IN  IF neg THEN -a ELSE a

(* Math.round of a number in tenths; the result is a whole number.         *)
MathRound(n) == (n + 5) \div 10

(* An integer status code or whole number in a template literal.           *)
IntToStr(n) == (IF n < 0 THEN <<"-">> ELSE <<>>) \o NatToStr(IF n < 0 THEN -n ELSE n)

(* s occurs in t as a contiguous run (String.prototype.includes).          *)
Includes(t, s) ==
  \E i \in 0..(Len(t) - Len(s)) : SubSeq(t, i + 1, i + Len(s)) = s

(* Array.prototype.join(sep) *)
RECURSIVE join(_, _)
join(parts, sep) ==
  IF parts = <<>> THEN <<>>
  ELSE IF Len(parts) = 1 THEN parts[1]
  ELSE parts[1] \o <<sep>> \o join(Tail(parts), sep)

(* Array.prototype.filter(Boolean) on optional strings: undefined and ""   *)
(* are dropped.                                                            *)
RECURSIVE filterBoolean(_)
filterBoolean(opts) ==
  IF opts = <<>> THEN <<>>
  ELSE (IF Head(opts) = None \/ Head(opts)[1] = <<>> THEN <<>> ELSE <<Head(opts)[1]>>)
         \o filterBoolean(Tail(opts))

(* ------------------------- upstream data ------------------------------- *)

MaxResults == 2

MaxDays == 2

Str(piece) == <<piece>>

EmptyStr == <<>>

(* One element of the geocoder's results array                             *)
(* (OpenMeteoGeocodingResponse).                                           *)
GeoMatch(name, admin1, country, lat, lon, tz) ==
  [name |-> name, admin1 |-> admin1, country |-> country,
   latitude |-> lat, longitude |-> lon, timezone |-> tz]

Matches ==
  {GeoMatch(Str("Paris"), a, c, 489, 23, tz) :
      a \in {None, Some(EmptyStr), Some(Str("Ile-de-France"))},
      c \in {None, Some(Str("France"))},
      tz \in {None, Some(Str("Europe/Paris"))}}
  \cup
  {GeoMatch(Str("Quito"), None, Some(Str("Ecuador")), ll[1], ll[2], None) :
      ll \in {<<-2, -785>>, <<-340, 1510>>, <<0, 0>>}}

Decoy == GeoMatch(Str("Paris"), Some(Str("Texas")), Some(Str("United States")),
                  337, -955, Some(Str("America/Chicago")))

(* results arrays: a first match followed by further matches *)
ResultArrays ==
  {<<>>} \cup
  {<<m>> \o [i \in 1..k |-> Decoy] : m \in Matches, k \in {0}} \cup
  {<<m>> \o [i \in 1..k |-> Decoy] :
      m \in {GeoMatch(Str("Paris"), None, Some(Str("France")), 489, 23, None)},
      k \in 1..(MaxResults - 1)}

(* The parsed body of a response: res.json() rejects, or yields null or an *)
(* object.                                                                 *)
JsonError == [parse |-> "error"]

JsonNull == [parse |-> "null"]

JsonObject(v) == [parse |-> "object", value |-> v]

(* What fetch(url) does: it rejects (network exception) or resolves to a   *)
(* response with a status, a raw text and a parsed body.                   *)
Reject(msg) == [kind |-> "reject", error |-> [isError |-> TRUE, message |-> msg]]

Response(status, text, json) ==
  [kind |-> "response", status |-> status, text |-> text, json |-> json]

FailedFetches ==
  {Reject(Str("fetch failed")),
   Response(404, None, JsonError),
   Response(404, Some(Str("Not Found")), JsonError),
   Response(500, Some(EmptyStr), JsonError),
   Response(200, Some(Str("<html>")), JsonError),
   Response(200, Some(Str("null")), JsonNull)}

GeoOutcomes ==
  FailedFetches
  \cup {Response(400, Some(Str("{\"error\":true}")), JsonObject([results |-> None]))}
  \cup {Response(200, Some(Str("{}")), JsonObject([results |-> None]))}
  \cup {Response(200, Some(Str("{..}")), JsonObject([results |-> Some(r)])) :
          r \in ResultArrays}

(* Forecast bodies (OpenMeteoForecastResponse). *)
Series(vals) == [i \in 1..MaxDays |-> vals[i]]

Dates == Series([i \in 1..8 |-> Str("2026-01-0") \o NatToStr(i)])

Highs == Series([i \in 1..8 |-> 241 + 13 * i])

Lows == Series([i \in 1..8 |-> -4 * i + 4])

Precs == Series([i \in 1..8 |-> (i - 1) * 35])

Current(time, temp, code, wind) ==
  [time |-> time, temperature_2m |-> temp, weather_code |-> code,
   wind_speed_10m |-> wind]

Currents ==
  {None} \cup
  {Some(Current(tw[1], t, c, tw[2])) :
      tw \in {<<None, None>>, <<Some(Str("2026-01-01T10:00")), Some(72)>>},
      t \in {None, Some(0), Some(215), Some(-5)},
      c \in {None, Some(0), Some(61), Some(4)}}

Daily(time, hi, lo, pr) ==
  [time |-> time, temperature_2m_max |-> hi, temperature_2m_min |-> lo,
   precipitation_probability_max |-> pr]

Dailies ==
  {None} \cup
  {Some(Daily(d, hi, lo, pr)) :
      d \in {None, Some(<<>>), Some(Dates)},
      hi \in {None, Some(<<>>), Some(Highs)},
      lo \in {None, Some(Lows)},
      pr \in {None, Some(Precs)}}

Units ==
  {None} \cup
  {Some([temperature_2m |-> t, wind_speed_10m |-> w]) :
      t \in {None, Some(Str("F"))}, w \in {None, Some(Str("mp/h"))}}

Forecast(tz, cur, day, units) ==
  [timezone |-> tz, current |-> cur, daily |-> day, current_units |-> units]

FullCurrent == Some(Current(Some(Str("2026-01-01T10:00")), Some(215), Some(61), Some(72)))

FullDaily == Some(Daily(Some(Dates), Some(Highs), Some(Lows), Some(Precs)))

ForecastBodies ==
  {Forecast(Some(Str("Europe/Berlin")), c, FullDaily, None) : c \in Currents}
  \cup {Forecast(None, FullCurrent, d, None) : d \in Dailies}
  \cup {Forecast(tz, FullCurrent, FullDaily, u) :
          tz \in {None, Some(Str("Europe/Berlin"))}, u \in Units}

ForecastOutcomes ==
  FailedFetches
  \cup {Response(400, Some(Str("{\"error\":true}")),
                 JsonObject(Forecast(None, None, None, None)))}
  \cup {Response(200, Some(Str("{..}")), JsonObject(b)) : b \in ForecastBodies}

(* --------------------------- state ------------------------------------- *)

Sides == {"tool", "page"}

VARIABLES
  city,      \* the city argument of the invocation
  upGeo,     \* what the geocoding endpoint does with a call
  upFc,      \* what the forecast endpoint does with a call
  pc,        \* per composer: "off", "ready", "geo", "forecast", "done"
  calls,     \* per composer: the outbound HTTP calls issued so far
  best,      \* per composer: the geocoder's first match, once known
  response,  \* per composer: what the invocation returned, once done
  thrown,    \* per composer: the error the invocation propagated, if any
  wmoIn,     \* weather-code translator: the code under translation
  wmoOut,    \* weather-code translator: the two copies' answers
  inv,       \* concurrent get_weather invocations, by invocation
  exIn,      \* extractWeatherStructuredContent: the toolOutput given
  exOut,     \* extractWeatherStructuredContent: what it returned
  ageWidget, \* age-predictor widget: the document and its script state
  isChatGptApp,  \* page (Home): useIsChatGptApp()
  cityInput,     \* page (Home): the city state (the input's text)
  pendingCity,   \* page (Home): the pendingCity state
  localWeather,  \* page (Home): the localWeather state
  requestError,  \* page (Home): the requestError state
  toolOutput,    \* page (Home): useWidgetProps(), what the host injected
  requests,      \* page (Home): the requestWeather calls started so far
  effectDue,     \* page (Home): the pendingCity effect is due to run
  food       \* fast-food service: one geocodeLocation / searchNearbyShops call

weatherVars == <<city, upGeo, upFc, pc, calls, best, response, thrown>>

wmoVars == <<wmoIn, wmoOut>>

extractVars == <<exIn, exOut>>

pageVars ==
  <<isChatGptApp, cityInput, pendingCity, localWeather, requestError,
    toolOutput, requests, effectDue>>

otherVars == <<inv, extractVars, ageWidget, pageVars, food>>

vars == <<weatherVars, wmoVars, otherVars>>

(* the parts of the state a specification does not use stay as they are    *)
(* here                                                                    *)
WmoIdle == wmoIn = <<>> /\ wmoOut = <<>>

ConcIdle == inv = <<>>

ExtractIdle == exIn = <<>> /\ exOut = <<>>

WidgetIdle == ageWidget = <<>>

PageIdle ==
  /\ isChatGptApp = FALSE
  /\ cityInput = <<>>
  /\ pendingCity = <<>>
  /\ localWeather = <<>>
  /\ requestError = <<>>
  /\ toolOutput = <<>>
  /\ requests = <<>>
  /\ effectDue = FALSE

FoodIdle == food = <<>>

(* --------------------- weather-code translator ------------------------- *)

(* faulty variant: the freezing codes fall into their neighbours *)
wmoWeatherCodeToTextNoFreezing(code) ==
  IF code = None THEN "Unknown conditions"
  ELSE CASE code[1] = 0 -> "Clear sky"
         [] code[1] \in {1, 2, 3} -> "Partly cloudy"
         [] code[1] \in {45, 48} -> "Fog"
         [] code[1] \in {51, 53, 55, 56, 57} -> "Drizzle"
         [] code[1] \in {61, 63, 65, 66, 67} -> "Rain"
         [] code[1] \in {71, 73, 75} -> "Snow"
         [] code[1] = 77 -> "Snow grains"
         [] code[1] \in {80, 81, 82} -> "Rain showers"
         [] code[1] \in {85, 86} -> "Snow showers"
         [] code[1] = 95 -> "Thunderstorm"
         [] code[1] \in {96, 99} -> "Thunderstorm with hail"
         [] OTHER -> "Unknown conditions"

(* route.ts copy *)
wmoWeatherCodeToText(code) ==
  IF code = None THEN "Unknown conditions"
  ELSE CASE code[1] = 0 -> "Clear sky"
         [] code[1] \in {1, 2, 3} -> "Partly cloudy"
         [] code[1] \in {45, 48} -> "Fog"
         [] code[1] \in {51, 53, 55} -> "Drizzle"
         [] code[1] \in {56, 57} -> "Freezing drizzle"
         [] code[1] \in {61, 63, 65} -> "Rain"
         [] code[1] \in {66, 67} -> "Freezing rain"
         [] code[1] \in {71, 73, 75} -> "Snow"
         [] code[1] = 77 -> "Snow grains"
         [] code[1] \in {80, 81, 82} -> "Rain showers"
         [] code[1] \in {85, 86} -> "Snow showers"
         [] code[1] = 95 -> "Thunderstorm"
         [] code[1] \in {96, 99} -> "Thunderstorm with hail"
         [] OTHER -> "Unknown conditions"

(* page.tsx copy *)
wmoWeatherCodeToTextPage(code) ==
  IF code = None THEN "Unknown conditions"
  ELSE CASE code[1] = 0 -> "Clear sky"
         [] code[1] \in {1, 2, 3} -> "Partly cloudy"
         [] code[1] \in {45, 48} -> "Fog"
         [] code[1] \in {51, 53, 55} -> "Drizzle"
         [] code[1] \in {56, 57} -> "Freezing drizzle"
         [] code[1] \in {61, 63, 65} -> "Rain"
         [] code[1] \in {66, 67} -> "Freezing rain"
         [] code[1] \in {71, 73, 75} -> "Snow"
         [] code[1] = 77 -> "Snow grains"
         [] code[1] \in {80, 81, 82} -> "Rain showers"
         [] code[1] \in {85, 86} -> "Snow showers"
         [] code[1] = 95 -> "Thunderstorm"
         [] code[1] \in {96, 99} -> "Thunderstorm with hail"
         [] OTHER -> "Unknown conditions"

(* ------------------------ shared pieces -------------------------------- *)

Error(msg) == [isError |-> TRUE, message |-> msg]

(* Response.ok *)
ok(res) == res.status >= 200 /\ res.status <= 299

geoUrl(trimmed) ==
  Str("https://geocoding-api.open-meteo.com/v1/search?name=")
    \o encodeURIComponent(trimmed)
    \o Str("&count=1&language=en&format=json")

forecastUrl(b) ==
  Str("https://api.open-meteo.com/v1/forecast?latitude=")
    \o NumToStr(b.latitude)
    \o Str("&longitude=")
    \o NumToStr(b.longitude)
    \o Str("&current=temperature_2m,weather_code,wind_speed_10m&daily=temperature_2m_max,temperature_2m_min,precipitation_probability_max&timezone=auto")

(* geo.results?.[0] *)
firstResult(geo) ==
  IF geo.results = None THEN None
  ELSE IF geo.results[1] = <<>> THEN None
  ELSE Some(geo.results[1][1])

(* faulty variant: the index is taken one day late *)
atTomorrow(series, i) ==
  IF series = None THEN None
  ELSE IF i + 2 > Len(series[1]) THEN None
  ELSE Some(series[1][i + 2])

(* series?.[i] of an optional array, with a JavaScript (0-based) index *)
at(series, i) ==
  IF series = None THEN None
  ELSE IF i + 1 > Len(series[1]) THEN None
  ELSE Some(series[1][i + 1])

(* faulty variant: the message does not interpolate the query *)
notFoundMessageGeneric(trimmed) ==
  Str("Couldn't find that location. Try including a country/state (e.g. \"Paris, France\").")

notFoundMessage(trimmed) ==
  Str("Couldn't find a location for \"") \o trimmed
    \o Str("\". Try including a country/state (e.g. \"Paris, France\").")

(* faulty variant: the name is left out of the label *)
locationLabelRegionOnly(b) == join(filterBoolean(<<b.admin1, b.country>>), ", ")

locationLabel(b) == join(filterBoolean(<<Some(b.name), b.admin1, b.country>>), ", ")

(* completions of a piece of asynchronous code *)
Throw(e) == [tag |-> "throw", error |-> e]

Return(v) == [tag |-> "return", value |-> v]

Await(b, url) == [tag |-> "await", best |-> b, url |-> url]

SyntaxError == Error(Str("Unexpected token < in JSON at position 0"))

TypeError(prop) ==
  Error(Str("Cannot read properties of null (reading '") \o Str(prop) \o Str("')"))

Call(api, url) == [api |-> api, url |-> url]

(* -------------------- get_weather tool (route.ts) ---------------------- *)

(* the degree sign followed by C, and the three characters the route.ts    *)
(* source holds in its place                                               *)
DegreeC == <<"U+00B0", "C">>

RouteDegreeC == <<"U+00C2", "U+00B0", "C">>

(* faulty variant: the other widget's template *)
weatherWidgetContentTemplate ==
  [id |-> "get_weather", title |-> "Get Weather",
   templateUri |-> "ui://widget/content-template.html",
   invoking |-> "Checking the weather...", invoked |-> "Weather updated"]

weatherWidget ==
  [id |-> "get_weather", title |-> "Get Weather",
   templateUri |-> "ui://widget/weather-template.html",
   invoking |-> "Checking the weather...", invoked |-> "Weather updated"]

widgetMeta(widget) ==
  [outputTemplate |-> widget.templateUri,
   invoking |-> widget.invoking,
   invoked |-> widget.invoked,
   widgetAccessible |-> FALSE,
   resultCanProduceWidget |-> TRUE]

(* faulty variants: res.ok is not tested; the message omits the status *)
fetchJsonOrThrowNoOkCheck(url, outcome) ==
  IF outcome.kind = "reject" THEN Throw(outcome.error)
  ELSE IF outcome.json.parse = "error" THEN Throw(SyntaxError)
  ELSE Return(outcome.json)

fetchJsonOrThrowNoStatus(url, outcome) ==
  IF outcome.kind = "reject" THEN Throw(outcome.error)
  ELSE IF ~ok(outcome)
    THEN Throw(Error(Str("Request failed for ") \o url \o Str(": ")
                       \o OrElse(outcome.text, EmptyStr)))
  ELSE IF outcome.json.parse = "error" THEN Throw(SyntaxError)
  ELSE Return(outcome.json)

fetchJsonOrThrow(url, outcome) ==
  IF outcome.kind = "reject" THEN Throw(outcome.error)
  ELSE IF ~ok(outcome)
    THEN Throw(Error(Str("Request failed (") \o IntToStr(outcome.status)
                       \o Str(") for ") \o url \o Str(": ")
                       \o OrElse(outcome.text, EmptyStr)))
  ELSE IF outcome.json.parse = "error" THEN Throw(SyntaxError)
  ELSE Return(outcome.json)

(* faulty variant: the blank test is missing *)
getWeatherForCityStartNoCheck(c) == Await(None, geoUrl(trim(c)))

(* getWeatherForCity up to its first await *)
getWeatherForCityStart(c) ==
  LET trimmed == trim(c)
  IN  IF trimmed = EmptyStr THEN Throw(Error(Str("City is required.")))
      ELSE Await(None, geoUrl(trimmed))

(* faulty variant: the test of best is missing *)
getWeatherForCityGeoUnchecked(c, r) ==
  IF r.tag = "throw" THEN r
  ELSE IF r.value.parse = "null" THEN Throw(TypeError("results"))
  ELSE LET b == firstResult(r.value.value)
       IN  IF b = None
             THEN Await(Some(GeoMatch(EmptyStr, None, None, 0, 0, None)),
                        Str("https://api.open-meteo.com/v1/forecast?latitude=undefined&longitude=undefined"))
             ELSE Await(b, forecastUrl(b[1]))

(* faulty variant: a failed geocoding call is tried again *)
getWeatherForCityGeoRetry(c, r) ==
  IF r.tag = "throw"
    THEN Await(Some(GeoMatch(EmptyStr, None, None, 0, 0, None)), geoUrl(trim(c)))
  ELSE IF r.value.parse = "null" THEN Throw(TypeError("results"))
  ELSE LET b == firstResult(r.value.value)
       IN  IF b = None
             THEN Return([ok |-> FALSE, error |-> notFoundMessage(trim(c))])
             ELSE Await(b, forecastUrl(b[1]))

(* getWeatherForCity from the geocoding answer to its second await *)
getWeatherForCityGeo(c, r) ==
  LET trimmed == trim(c)
  IN  IF r.tag = "throw" THEN r
      ELSE IF r.value.parse = "null" THEN Throw(TypeError("results"))
      ELSE LET b == firstResult(r.value.value)
           IN  IF b = None
                 THEN Return([ok |-> FALSE, error |-> notFoundMessage(trimmed)])
                 ELSE Await(b, forecastUrl(b[1]))

(* getWeatherForCity from the forecast answer to its return *)
getWeatherForCityForecast(c, b, r) ==
  LET trimmed == trim(c)
  IN  IF r.tag = "throw" THEN r
      ELSE IF r.value.parse = "null" THEN Throw(TypeError("daily"))
      ELSE
        LET forecast == r.value.value
            dailyIndex == 0
            todayHigh == IF forecast.daily = None THEN None
                         ELSE at(forecast.daily[1].temperature_2m_max, dailyIndex)
            todayLow == IF forecast.daily = None THEN None
                        ELSE at(forecast.daily[1].temperature_2m_min, dailyIndex)
            todayPrecipChance ==
              IF forecast.daily = None THEN None
              ELSE at(forecast.daily[1].precipitation_probability_max, dailyIndex)
            temp == IF forecast.current = None THEN None
                    ELSE forecast.current[1].temperature_2m
            wind == IF forecast.current = None THEN None
                    ELSE forecast.current[1].wind_speed_10m
            code == IF forecast.current = None THEN None
                    ELSE forecast.current[1].weather_code
            conditions == wmoWeatherCodeToText(code)
        IN  Return(
              [ok |-> TRUE,
               data |->
                 [kind |-> "weather",
                  query |-> trimmed,
                  source |-> "Open-Meteo (no API key)",
                  location |->
                    [name |-> locationLabel(b),
                     latitude |-> b.latitude,
                     longitude |-> b.longitude,
                     timezone |-> IF forecast.timezone # None
                                    THEN forecast.timezone ELSE b.timezone],
                  current |->
                    [time |-> IF forecast.current = None THEN None
                              ELSE forecast.current[1].time,
                     temperature |-> temp,
                     temperatureUnit |->
                       IF forecast.current_units = None THEN RouteDegreeC
                       ELSE OrElse(forecast.current_units[1].temperature_2m,
                                   RouteDegreeC),
                     windSpeed |-> wind,
                     windSpeedUnit |->
                       IF forecast.current_units = None THEN Str("km/h")
                       ELSE OrElse(forecast.current_units[1].wind_speed_10m,
                                   Str("km/h")),
                     weatherCode |-> code,
                     conditions |-> conditions],
                  today |->
                    [date |-> IF forecast.daily = None THEN None
                              ELSE at(forecast.daily[1].time, dailyIndex),
                     high |-> todayHigh,
                     low |-> todayLow,
                     precipitationChance |-> todayPrecipChance,
                     precipitationChanceUnit |-> "%"]]])

(* faulty variant: a truthiness test, which drops a value of 0 *)
truthy(o) == o # None /\ o[1] # 0

(* v != null *)
present(o) == o # None

(* get_weather handler, after getWeatherForCity has settled with          *)
(* completion c: the .catch, then the error or the success response        *)
toolResponse(cityArg, result) ==
  IF ~result.ok
    THEN [content |-> <<[type |-> "text", text |-> result.error]>>,
          structuredContent |->
            [kind |-> "weather_error", query |-> cityArg, error |-> result.error],
          meta |-> widgetMeta(weatherWidget)]
    ELSE
      LET d == result.data
          parts ==
            <<Str("Weather for ") \o d.location.name>>
            \o (IF present(d.current.temperature)
                  THEN <<Str("Now: ")
                           \o IntToStr(MathRound(d.current.temperature[1]))
                           \o d.current.temperatureUnit
                           \o Str(" (") \o Str(d.current.conditions) \o Str(")")>>
                  ELSE <<>>)
            \o (IF present(d.today.high) /\ present(d.today.low)
                  THEN <<Str("Today: H ")
                           \o IntToStr(MathRound(d.today.high[1]))
                           \o d.current.temperatureUnit
                           \o Str(" / L ")
                           \o IntToStr(MathRound(d.today.low[1]))
                           \o d.current.temperatureUnit>>
                  ELSE <<>>)
            \o (IF present(d.today.precipitationChance)
                  THEN <<Str("Precip chance: ")
                           \o IntToStr(MathRound(d.today.precipitationChance[1]))
                           \o Str("%")>>
                  ELSE <<>>)
      IN  [content |-> <<[type |-> "text", text |-> join(parts, "\n")]>>,
           structuredContent |-> d,
           meta |-> widgetMeta(weatherWidget)]

Settled(resp, err) == [response |-> resp, thrown |-> err]

(* faulty variant: the .catch is missing *)
handlerNoCatch(cityArg, c) ==
  IF c.tag = "throw" THEN Settled(None, Some(c.error))
  ELSE Settled(Some(toolResponse(cityArg, c.value)), None)

handler(cityArg, c) ==
  LET result ==
        IF c.tag = "throw"
          THEN [ok |-> FALSE,
                error |-> IF c.error.isError THEN c.error.message
                          ELSE Str("Failed to fetch weather for this city.")]
          ELSE c.value
  IN  Settled(Some(toolResponse(cityArg, result)), None)

(* One step of a composer: either it issues the call it awaits next, or   *)
(* it settles.                                                             *)
Issue(s, api, c, next) ==
  /\ calls' = [calls EXCEPT ![s] = Append(@, Call(api, c.url))]
  /\ best' = [best EXCEPT ![s] = c.best]
  /\ pc' = [pc EXCEPT ![s] = next]
  /\ UNCHANGED <<response, thrown>>

Settle(s, settled) ==
  /\ response' = [response EXCEPT ![s] = settled.response]
  /\ thrown' = [thrown EXCEPT ![s] = settled.thrown]
  /\ pc' = [pc EXCEPT ![s] = "done"]
  /\ UNCHANGED <<calls, best>>

LastCall(s) == calls[s][Len(calls[s])]

ToolStart ==
  /\ pc["tool"] = "ready"
  /\ LET c == getWeatherForCityStart(city)
     IN  IF c.tag = "await" THEN Issue("tool", "geocoding", c, "geo")
         ELSE Settle("tool", handler(city, c))
  /\ UNCHANGED <<city, upGeo, upFc, wmoIn, wmoOut, otherVars>>

ToolGeocoded ==
  /\ pc["tool"] = "geo"
  /\ LET c == getWeatherForCityGeo(city, fetchJsonOrThrow(LastCall("tool").url, upGeo))
     IN  IF c.tag = "await" THEN Issue("tool", "forecast", c, "forecast")
         ELSE Settle("tool", handler(city, c))
  /\ UNCHANGED <<city, upGeo, upFc, wmoIn, wmoOut, otherVars>>

ToolForecasted ==
  /\ pc["tool"] = "forecast"
  /\ Settle("tool",
            handler(city,
                    getWeatherForCityForecast(
                      city, best["tool"][1],
                      fetchJsonOrThrow(LastCall("tool").url, upFc))))
  /\ UNCHANGED <<city, upGeo, upFc, wmoIn, wmoOut, otherVars>>

(* ----------------- fetchWeatherOpenMeteo (page.tsx) --------------------- *)

WeatherError(query, error) ==
  [kind |-> "weather_error", query |-> query, error |-> error]

(* the catch block of fetchWeatherOpenMeteo *)
pageCatch(trimmed, e) ==
  WeatherError(trimmed,
               IF e.isError THEN e.message ELSE Str("Failed to fetch weather."))

(* fetchWeatherOpenMeteo up to its first await *)
fetchWeatherOpenMeteoStart(c) ==
  LET trimmed == trim(c)
  IN  IF trimmed = EmptyStr
        THEN Return(WeatherError(c, Str("City is required.")))
        ELSE Await(None, geoUrl(trimmed))

(* fetchWeatherOpenMeteo from the geocoding answer to its second await *)
fetchWeatherOpenMeteoGeo(c, geoRes) ==
  LET trimmed == trim(c)
  IN  IF geoRes.kind = "reject" THEN Return(pageCatch(trimmed, geoRes.error))
      ELSE IF ~ok(geoRes)
        THEN Return(WeatherError(trimmed,
                      Str("Geocoding failed (") \o IntToStr(geoRes.status)
                        \o Str(").")))
      ELSE IF geoRes.json.parse = "error"
        THEN Return(pageCatch(trimmed, SyntaxError))
      ELSE IF geoRes.json.parse = "null"
        THEN Return(pageCatch(trimmed, TypeError("results")))
      ELSE LET b == firstResult(geoRes.json.value)
           IN  IF b = None
                 THEN Return(WeatherError(trimmed, notFoundMessage(trimmed)))
                 ELSE Await(b, forecastUrl(b[1]))

(* fetchWeatherOpenMeteo from the forecast answer to its return *)
fetchWeatherOpenMeteoForecast(c, b, fcRes) ==
  LET trimmed == trim(c)
  IN  IF fcRes.kind = "reject" THEN Return(pageCatch(trimmed, fcRes.error))
      ELSE IF ~ok(fcRes)
        THEN Return(WeatherError(trimmed,
                      Str("Forecast failed (") \o IntToStr(fcRes.status)
                        \o Str(").")))
      ELSE IF fcRes.json.parse = "error"
        THEN Return(pageCatch(trimmed, SyntaxError))
      ELSE IF fcRes.json.parse = "null"
        THEN Return(pageCatch(trimmed, TypeError("current")))
      ELSE
        LET fc == fcRes.json.value
            code == IF fc.current = None THEN None ELSE fc.current[1].weather_code
        IN  Return(
              [kind |-> "weather",
               query |-> trimmed,
               source |-> "Open-Meteo (no API key)",
               location |->
                 [name |-> locationLabel(b),
                  latitude |-> b.latitude,
                  longitude |-> b.longitude,
                  timezone |-> IF fc.timezone # None THEN fc.timezone
                               ELSE b.timezone],
               current |->
                 [time |-> IF fc.current = None THEN None ELSE fc.current[1].time,
                  temperature |-> IF fc.current = None THEN None
                                  ELSE fc.current[1].temperature_2m,
                  temperatureUnit |->
                    IF fc.current_units = None THEN DegreeC
                    ELSE OrElse(fc.current_units[1].temperature_2m, DegreeC),
                  windSpeed |-> IF fc.current = None THEN None
                                ELSE fc.current[1].wind_speed_10m,
                  windSpeedUnit |->
                    IF fc.current_units = None THEN Str("km/h")
                    ELSE OrElse(fc.current_units[1].wind_speed_10m, Str("km/h")),
                  weatherCode |-> code,
                  conditions |-> wmoWeatherCodeToTextPage(code)],
               today |->
                 [date |-> IF fc.daily = None THEN None
                           ELSE at(fc.daily[1].time, 0),
                  high |-> IF fc.daily = None THEN None
                           ELSE at(fc.daily[1].temperature_2m_max, 0),
                  low |-> IF fc.daily = None THEN None
                          ELSE at(fc.daily[1].temperature_2m_min, 0),
                  precipitationChance |->
                    IF fc.daily = None THEN None
                    ELSE at(fc.daily[1].precipitation_probability_max, 0),
                  precipitationChanceUnit |-> "%"]])

PageStart ==
  /\ pc["page"] = "ready"
  /\ LET c == fetchWeatherOpenMeteoStart(city)
     IN  IF c.tag = "await" THEN Issue("page", "geocoding", c, "geo")
         ELSE Settle("page", Settled(Some(c.value), None))
  /\ UNCHANGED <<city, upGeo, upFc, wmoIn, wmoOut, otherVars>>

PageGeocoded ==
  /\ pc["page"] = "geo"
  /\ LET c == fetchWeatherOpenMeteoGeo(city, upGeo)
     IN  IF c.tag = "await" THEN Issue("page", "forecast", c, "forecast")
         ELSE Settle("page", Settled(Some(c.value), None))
  /\ UNCHANGED <<city, upGeo, upFc, wmoIn, wmoOut, otherVars>>

PageForecasted ==
  /\ pc["page"] = "forecast"
  /\ Settle("page",
            Settled(Some(fetchWeatherOpenMeteoForecast(city, best["page"][1], upFc).value),
                    None))
  /\ UNCHANGED <<city, upGeo, upFc, wmoIn, wmoOut, otherVars>>

(* ------------------------- specification ------------------------------- *)

(* inputSchema of get_weather: z.string().min(1) *)
inputSchema(c) == Len(c) >= 1

Idle == [s \in Sides |-> "off"]

(* One invocation of each composer for the same city against the same      *)
(* upstream behaviour; the tool handler only ever sees a city its          *)
(* inputSchema accepts.                                                    *)
Init ==
  /\ city \in Cities
  /\ upGeo \in GeoOutcomes
  /\ upFc \in ForecastOutcomes
  /\ pc = [s \in Sides |->
             IF s = "tool" /\ ~inputSchema(city) THEN "off" ELSE "ready"]
  /\ calls = [s \in Sides |-> <<>>]
  /\ best = [s \in Sides |-> None]
  /\ response = [s \in Sides |-> None]
  /\ thrown = [s \in Sides |-> None]
  /\ wmoIn = None
  /\ wmoOut = None
  /\ ConcIdle /\ ExtractIdle /\ WidgetIdle /\ PageIdle /\ FoodIdle

Next ==
  \/ ToolStart
  \/ ToolGeocoded
  \/ ToolForecasted
  \/ PageStart
  \/ PageGeocoded
  \/ PageForecasted

Spec == Init /\ [][Next]_vars

(* The translator alone, applied to every code of a range around the table *)
(* and to the missing code.                                                *)
MaxCode == 105

WmoCodes == {None} \cup {Some(n) : n \in (0 - 3)..MaxCode}

Translate ==
  /\ wmoOut = None
  /\ wmoOut' = Some([route |-> wmoWeatherCodeToText(wmoIn),
                     page |-> wmoWeatherCodeToTextPage(wmoIn)])
  /\ UNCHANGED <<weatherVars, wmoIn, otherVars>>

WeatherIdle ==
  /\ city = EmptyStr
  /\ upGeo = Reject(Str("fetch failed"))
  /\ upFc = Reject(Str("fetch failed"))
  /\ pc = Idle
  /\ calls = [s \in Sides |-> <<>>]
  /\ best = [s \in Sides |-> None]
  /\ response = [s \in Sides |-> None]
  /\ thrown = [s \in Sides |-> None]

InitWmo ==
  /\ WeatherIdle
  /\ wmoIn \in WmoCodes
  /\ wmoOut = None
  /\ ConcIdle /\ ExtractIdle /\ WidgetIdle /\ PageIdle /\ FoodIdle

NextWmo == Translate

SpecWmo == InitWmo /\ [][NextWmo]_vars

(* ------------------------ observations --------------------------------- *)

Done(s) == pc[s] = "done"

(* the WeatherResult an invocation produced *)
Structured(s) ==
  IF s = "tool" THEN response[s][1].structuredContent ELSE response[s][1]

Returned(s) == Done(s) /\ response[s] # None

Blank(c) == \A i \in 1..Len(c) : c[i] \in Whitespace

CallsTo(s, api) == {i \in 1..Len(calls[s]) : calls[s][i].api = api}

IsResponse(o) == o.kind = "response"

NonSuccess(o) == IsResponse(o) /\ (o.status < 200 \/ o.status > 299)

Success(o) == IsResponse(o) /\ ~NonSuccess(o) /\ o.json.parse = "object"

(* the geocoding call succeeded, with or without a match *)
NoMatch(o) ==
  /\ Success(o)
  /\ \/ o.json.value.results = None
     \/ o.json.value.results[1] = <<>>

HasMatch(o) == Success(o) /\ ~NoMatch(o)

FirstMatch(o) == o.json.value.results[1][1]

ErrorFields == {"kind", "query", "error"}

(* ---------------------------- C1 --------------------------------------- *)

(* C1: for an empty or whitespace-only city, either composer makes no      *)
(* outbound call at any point of the invocation and ends with a            *)
(* weather_error whose message is "City is required.".                     *)
C1_BlankCityRejected ==
  \A s \in Sides :
    Blank(city) =>
      /\ calls[s] = <<>>
      /\ pc[s] \in {"off", "ready", "done"}
      /\ Done(s) =>
           /\ Returned(s)
           /\ Structured(s).kind = "weather_error"
           /\ Structured(s).error = <<"City is required.">>

C1_Witness ==
  /\ Blank(city)
  /\ Len(city) >= 1
  /\ \A s \in Sides : Returned(s) /\ Structured(s).kind = "weather_error"

(* ---------------------------- C2 --------------------------------------- *)

(* C2: a forecast call is issued only as the second call, after a          *)
(* geocoding call that succeeded with at least one match; when the         *)
(* geocoding step fails (non-success status, exception, no results) the    *)
(* invocation ends with a weather_error and no forecast call.              *)
C2_ForecastOnlyAfterMatch ==
  \A s \in Sides :
    /\ \A i \in CallsTo(s, "forecast") :
         /\ i = 2
         /\ calls[s][1].api = "geocoding"
         /\ HasMatch(upGeo)
    /\ (~HasMatch(upGeo) /\ Done(s)) =>
         /\ Returned(s)
         /\ Structured(s).kind = "weather_error"
         /\ CallsTo(s, "forecast") = {}
    /\ (~HasMatch(upGeo)) => pc[s] # "forecast"

C2_Witness ==
  /\ ~HasMatch(upGeo)
  /\ \A s \in Sides :
       /\ Returned(s)
       /\ Len(calls[s]) = 1
       /\ calls[s][1].api = "geocoding"
       /\ Structured(s).kind = "weather_error"

(* ---------------------------- C3 --------------------------------------- *)

(* C3: when the geocoding call succeeds without a match, the result is a   *)
(* weather_error whose message contains the text that was looked up (the   *)
(* trimmed city).                                                          *)
C3_NoMatchMentionsQuery ==
  \A s \in Sides :
    (NoMatch(upGeo) /\ ~Blank(city) /\ Done(s)) =>
      /\ Returned(s)
      /\ Structured(s).kind = "weather_error"
      /\ Includes(Structured(s).error, trim(city))
      /\ Includes(calls[s][1].url, encodeURIComponent(trim(city)))

C3_Witness ==
  /\ NoMatch(upGeo)
  /\ Len(trim(city)) = 3
  /\ \A s \in Sides : Returned(s) /\ Len(calls[s]) = 1

(* ---------------------------- C4 --------------------------------------- *)

(* C4: all-or-nothing.  A forecast failure after a geocoding match gives a *)
(* weather_error that has no location, current or today field; a result of *)
(* kind weather exists only when both calls succeeded.                     *)
C4_AllOrNothing ==
  \A s \in Sides :
    Done(s) =>
      /\ Returned(s)
      /\ (HasMatch(upGeo) /\ ~Blank(city) /\ ~Success(upFc)) =>
           /\ Structured(s).kind = "weather_error"
           /\ DOMAIN Structured(s) = ErrorFields
      /\ Structured(s).kind = "weather" =>
           /\ HasMatch(upGeo)
           /\ Success(upFc)
           /\ Len(calls[s]) = 2

C4_Witness ==
  /\ HasMatch(upGeo)
  /\ NonSuccess(upFc)
  /\ upFc.json.parse = "object"
  /\ \A s \in Sides :
       Returned(s) /\ Len(calls[s]) = 2 /\ Structured(s).kind = "weather_error"

(* ---------------------------- C5 --------------------------------------- *)

(* C5: a finished get_weather invocation has returned a tool result and    *)
(* propagated no error, whatever the upstream calls did, and its           *)
(* structuredContent is of kind weather or weather_error; the page's       *)
(* composer likewise returns a value of one of the two kinds.              *)
C5_NeverPropagates ==
  \A s \in Sides :
    Done(s) =>
      /\ thrown[s] = None
      /\ response[s] # None
      /\ Structured(s).kind \in {"weather", "weather_error"}

C5_Witness ==
  /\ upGeo.kind = "reject"
  /\ Returned("tool")
  /\ thrown["tool"] = None
  /\ Structured("tool").kind = "weather_error"
  /\ Len(calls["tool"]) = 1

(* ---------------------------- C6 --------------------------------------- *)

(* C6: when the geocoding call, or the forecast call after a match,        *)
(* answers with a non-success status, the weather_error's message includes *)
(* that status code in decimal.                                            *)
C6_StatusInMessage ==
  \A s \in Sides :
    (Done(s) /\ ~Blank(city)) =>
      /\ NonSuccess(upGeo) =>
           /\ Structured(s).kind = "weather_error"
           /\ Includes(Structured(s).error, IntToStr(upGeo.status))
      /\ (HasMatch(upGeo) /\ NonSuccess(upFc)) =>
           /\ Structured(s).kind = "weather_error"
           /\ Includes(Structured(s).error, IntToStr(upFc.status))

C6_Witness ==
  /\ HasMatch(upGeo)
  /\ NonSuccess(upFc)
  /\ upFc.status = 500
  /\ \A s \in Sides : Returned(s) /\ Len(calls[s]) = 2

(* ---------------------------- C7 --------------------------------------- *)

(* the documented table of the weather-code translator *)
DocumentedText(n) ==
  CASE n = 0 -> "Clear sky"
    [] n = 1 \/ n = 2 \/ n = 3 -> "Partly cloudy"
    [] n = 45 \/ n = 48 -> "Fog"
    [] n = 51 \/ n = 53 \/ n = 55 -> "Drizzle"
    [] n = 56 \/ n = 57 -> "Freezing drizzle"
    [] n = 61 \/ n = 63 \/ n = 65 -> "Rain"
    [] n = 66 \/ n = 67 -> "Freezing rain"
    [] n = 71 \/ n = 73 \/ n = 75 -> "Snow"
    [] n = 77 -> "Snow grains"
    [] n = 80 \/ n = 81 \/ n = 82 -> "Rain showers"
    [] n = 85 \/ n = 86 -> "Snow showers"
    [] n = 95 -> "Thunderstorm"
    [] n = 96 \/ n = 99 -> "Thunderstorm with hail"
    [] OTHER -> "Unknown conditions"

TableTexts ==
  {"Clear sky", "Partly cloudy", "Fog", "Drizzle", "Freezing drizzle", "Rain",
   "Freezing rain", "Snow", "Snow grains", "Rain showers", "Snow showers",
   "Thunderstorm", "Thunderstorm with hail", "Unknown conditions"}

(* C7: for every code, and for the missing code, both copies of            *)
(* wmoWeatherCodeToText return the documented string, and the same one.    *)
C7_TranslatorTable ==
  wmoOut # None =>
    /\ wmoOut[1].route =
         (IF wmoIn = None THEN "Unknown conditions" ELSE DocumentedText(wmoIn[1]))
    /\ wmoOut[1].page = wmoOut[1].route

C7_Witness ==
  /\ wmoIn = Some(57)
  /\ wmoOut # None
  /\ wmoOut[1].route = "Freezing drizzle"

(* ---------------------------- C8 --------------------------------------- *)

(* C8: when the geocoder returns a match and the forecast call succeeds,   *)
(* the result is of kind weather, its location.name is not empty and its   *)
(* current.conditions is a string of the translation table, also when the  *)
(* forecast has no current weather code.                                   *)
C8_WeatherOnSuccess ==
  \A s \in Sides :
    (Done(s) /\ ~Blank(city) /\ HasMatch(upGeo) /\ Success(upFc)) =>
      /\ Structured(s).kind = "weather"
      /\ Structured(s).location.name # <<>>
      /\ Structured(s).current.conditions \in TableTexts

C8_Witness ==
  /\ HasMatch(upGeo)
  /\ FirstMatch(upGeo).admin1 = None
  /\ FirstMatch(upGeo).country = None
  /\ Success(upFc)
  /\ upFc.json.value.current = None
  /\ \A s \in Sides :
       /\ Returned(s)
       /\ Structured(s).kind = "weather"
       /\ Structured(s).current.conditions = "Unknown conditions"

(* ---------------------------- C9 --------------------------------------- *)

UpstreamUnit(o, field) ==
  IF o.json.value.current_units = None THEN None
  ELSE IF field = "temperature_2m"
    THEN o.json.value.current_units[1].temperature_2m
    ELSE o.json.value.current_units[1].wind_speed_10m

(* C9: in every result of kind weather, of either composer, the            *)
(* temperature unit is the upstream one when present and the degree sign   *)
(* followed by C otherwise, and the wind speed unit is the upstream one    *)
(* when present and km/h otherwise.                                        *)
C9_UnitDefaults ==
  \A s \in Sides :
    (Returned(s) /\ Structured(s).kind = "weather") =>
      /\ Structured(s).current.temperatureUnit =
           OrElse(UpstreamUnit(upFc, "temperature_2m"), <<"U+00B0", "C">>)
      /\ Structured(s).current.windSpeedUnit =
           OrElse(UpstreamUnit(upFc, "wind_speed_10m"), <<"km/h">>)

(* ---------------------------- C10 -------------------------------------- *)

(* the coordinates the forecast endpoint reads from a request URL *)
PieceIndex(url, piece) == CHOOSE k \in 1..Len(url) : url[k] = piece

RequestedLatitude(url) == ParseNum(SubSeq(url, 2, Len(url)))

RequestedLongitude(url) ==
  ParseNum(SubSeq(url, PieceIndex(url, "&longitude=") + 1, Len(url)))

UpstreamCurrent(o, field) ==
  IF o.json.value.current = None THEN None
  ELSE CASE field = "time" -> o.json.value.current[1].time
         [] field = "temperature_2m" -> o.json.value.current[1].temperature_2m
         [] field = "wind_speed_10m" -> o.json.value.current[1].wind_speed_10m
         [] field = "weather_code" -> o.json.value.current[1].weather_code

UpstreamDaily(o, field) ==
  IF o.json.value.daily = None THEN None
  ELSE CASE field = "time" -> o.json.value.daily[1].time
         [] field = "temperature_2m_max" -> o.json.value.daily[1].temperature_2m_max
         [] field = "temperature_2m_min" -> o.json.value.daily[1].temperature_2m_min
         [] field = "precipitation_probability_max" ->
              o.json.value.daily[1].precipitation_probability_max

(* the first value of an upstream daily series, if there is one *)
DayZero(series) ==
  IF series = None \/ series = Some(<<>>) THEN None ELSE Some(Head(series[1]))

(* C10: in every weather result the location's coordinates are those of    *)
(* the geocoder's first match and those the forecast request carried, the  *)
(* current fields are the upstream current fields and the today fields are *)
(* the first entries of the upstream daily series; a forecast request      *)
(* built from the embedded coordinates is the request that was sent.       *)
C10_NoLossyTransform ==
  \A s \in Sides :
    (Returned(s) /\ Structured(s).kind = "weather") =>
      LET w == Structured(s)
          sent == calls[s][2].url
      IN  /\ w.location.latitude = FirstMatch(upGeo).latitude
          /\ w.location.longitude = FirstMatch(upGeo).longitude
          /\ RequestedLatitude(sent) = w.location.latitude
          /\ RequestedLongitude(sent) = w.location.longitude
          /\ w.current.time = UpstreamCurrent(upFc, "time")
          /\ w.current.temperature = UpstreamCurrent(upFc, "temperature_2m")
          /\ w.current.windSpeed = UpstreamCurrent(upFc, "wind_speed_10m")
          /\ w.current.weatherCode = UpstreamCurrent(upFc, "weather_code")
          /\ w.today.date = DayZero(UpstreamDaily(upFc, "time"))
          /\ w.today.high = DayZero(UpstreamDaily(upFc, "temperature_2m_max"))
          /\ w.today.low = DayZero(UpstreamDaily(upFc, "temperature_2m_min"))
          /\ w.today.precipitationChance =
               DayZero(UpstreamDaily(upFc, "precipitation_probability_max"))
          /\ forecastUrl([latitude |-> w.location.latitude,
                          longitude |-> w.location.longitude]) = sent

C10_Witness ==
  /\ HasMatch(upGeo)
  /\ FirstMatch(upGeo).latitude = 0 - 2
  /\ FirstMatch(upGeo).longitude = 0 - 785
  /\ Success(upFc)
  /\ upFc.json.value.daily = FullDaily
  /\ \A s \in Sides :
       /\ Returned(s)
       /\ Structured(s).kind = "weather"
       /\ Structured(s).today.high = Some(Highs[1])

(* ---------------------------- C11 -------------------------------------- *)

(* the city without its leading and trailing whitespace *)
Trimmed(c) ==
  LET idx == {i \in 1..Len(c) : c[i] \notin Whitespace}
  IN  IF idx = {} THEN <<>>
      ELSE SubSeq(c, CHOOSE i \in idx : \A j \in idx : i <= j,
                     CHOOSE i \in idx : \A j \in idx : i >= j)

(* C11: a get_weather invocation issues at most two calls, one after the   *)
(* other: the geocoding call, and the forecast call only once the          *)
(* geocoding answer has arrived; a call that failed is not followed by any *)
(* further call.                                                           *)
C11_AtMostTwoSequentialCalls ==
  LET n == Len(calls["tool"])
  IN  /\ n <= 2
      /\ n >= 1 => calls["tool"][1].api = "geocoding"
      /\ n = 2 => calls["tool"][2].api = "forecast"
      /\ pc["tool"] \in {"off", "ready"} => n = 0
      /\ pc["tool"] = "geo" => n = 1
      /\ pc["tool"] = "forecast" => n = 2
      /\ n = 2 => /\ HasMatch(upGeo)
                  /\ calls["tool"][2].url = forecastUrl(FirstMatch(upGeo))
                  /\ calls["tool"][2].url # calls["tool"][1].url

C11_Witness ==
  /\ Done("tool")
  /\ Len(calls["tool"]) = 2
  /\ NonSuccess(upFc)
  /\ Structured("tool").kind = "weather_error"

(* ---------------------------- C13 -------------------------------------- *)

WeatherFields == {"kind", "query", "source", "location", "current", "today"}

(* C13: every get_weather response has one text content item, a            *)
(* structuredContent of the WeatherResult shape and the weather widget's   *)
(* template in its metadata; on the error path the text is the             *)
(* structuredContent's error.                                              *)
C13_ResponseParts ==
  Returned("tool") =>
    LET r == response["tool"][1]
    IN  /\ Len(r.content) = 1
        /\ r.content[1].type = "text"
        /\ r.meta.outputTemplate = "ui://widget/weather-template.html"
        /\ \/ /\ r.structuredContent.kind = "weather"
              /\ DOMAIN r.structuredContent = WeatherFields
           \/ /\ r.structuredContent.kind = "weather_error"
              /\ DOMAIN r.structuredContent = ErrorFields
              /\ r.content[1].text = r.structuredContent.error

C13_Witness ==
  /\ Returned("tool")
  /\ NoMatch(upGeo)
  /\ Len(calls["tool"]) = 1
  /\ response["tool"][1].content[1].text = response["tool"][1].structuredContent.error

(* ---------------------------- C17 -------------------------------------- *)

(* String.prototype.split(sep), for a separator that is one piece *)
RECURSIVE Split(_, _)
Split(t, sep) ==
  IF \A i \in 1..Len(t) : t[i] # sep THEN <<t>>
  ELSE LET k == CHOOSE i \in 1..Len(t) : t[i] = sep /\ \A j \in 1..(i - 1) : t[j] # sep
       IN  <<SubSeq(t, 1, k - 1)>> \o Split(SubSeq(t, k + 1, Len(t)), sep)

(* C17: on the success path the text is the lines, joined by newlines:     *)
(* "Weather for <name>" first, then a "Now:" line iff the temperature is   *)
(* present, a "Today:" line iff high and low are both present, a "Precip   *)
(* chance:" line iff the precipitation chance is present; a value of 0     *)
(* counts as present.                                                      *)
C17_TextSummary ==
  (Returned("tool") /\ Structured("tool").kind = "weather") =>
    LET d == Structured("tool")
        lines == Split(response["tool"][1].content[1].text, "\n")
        heads ==
          <<"Weather for ">>
          \o (IF d.current.temperature # None THEN <<"Now: ">> ELSE <<>>)
          \o (IF d.today.high # None /\ d.today.low # None
                THEN <<"Today: H ">> ELSE <<>>)
          \o (IF d.today.precipitationChance # None
                THEN <<"Precip chance: ">> ELSE <<>>)
    IN  /\ lines[1] = <<"Weather for ">> \o d.location.name
        /\ Len(lines) = Len(heads)
        /\ \A i \in 1..Len(heads) : lines[i] # <<>> /\ lines[i][1] = heads[i]

C17_Witness ==
  /\ Returned("tool")
  /\ Structured("tool").kind = "weather"
  /\ Structured("tool").current.temperature = Some(0)
  /\ Structured("tool").today.low = Some(0)
  /\ Structured("tool").today.precipitationChance = Some(0)
  /\ Len(Split(response["tool"][1].content[1].text, "\n")) = 4

(* ---------------------------- C18 -------------------------------------- *)

(* C18 as stated: every result's query is the trimmed city.                *)
C18_QueryIsTrimmedCity ==
  \A s \in Sides : Returned(s) => Structured(s).query = Trimmed(city)

(* C18 as amended: a weather result's query, and the query of a            *)
(* weather_error of fetchWeatherOpenMeteo for a city that is not blank, is *)
(* the trimmed city; a weather_error of the get_weather handler, and the   *)
(* one of fetchWeatherOpenMeteo for a blank city, carry the city argument  *)
(* as it was given.                                                        *)
C18_QueryField ==
  \A s \in Sides :
    Returned(s) =>
      /\ Structured(s).kind = "weather" => Structured(s).query = Trimmed(city)
      /\ (Structured(s).kind = "weather_error" /\ s = "tool") =>
           Structured(s).query = city
      /\ (Structured(s).kind = "weather_error" /\ s = "page") =>
           Structured(s).query = (IF Blank(city) THEN city ELSE Trimmed(city))

C18_Witness ==
  /\ city # Trimmed(city)
  /\ ~Blank(city)
  /\ \A s \in Sides : Returned(s) /\ Structured(s).kind = "weather_error"
  /\ Structured("tool").query = city
  /\ Structured("page").query = Trimmed(city)

(* --------------- extractWeatherStructuredContent (page.tsx) ------------- *)

(* JavaScript values of the toolOutput global: undefined, null, a          *)
(* primitive, or an object, of which the fields the function reads are     *)
(* kept apart from the rest of it.                                         *)
Undefined == [t |-> "undefined"]

Null == [t |-> "null"]

Primitive(isTruthy) == [t |-> "primitive", truthy |-> isTruthy]

Object(rest, kind, result, structuredContent) ==
  [t |-> "object", rest |-> rest, kind |-> kind, result |-> result,
   structuredContent |-> structuredContent]

Kinds == {None, Some("weather"), Some("weather_error"), Some("forecast")}

Payloads(rest) ==
  {Undefined, Null} \cup {Object(rest, k, Undefined, Undefined) : k \in Kinds}

ToolOutputs ==
  {Undefined, Null, Primitive(FALSE), Primitive(TRUE)}
  \cup {Object("toolOutput", k, r, sc) :
          k \in Kinds,
          r \in {Undefined, Null}
                \cup {Object("result", None, Undefined, p) :
                        p \in Payloads("result.structuredContent")},
          sc \in Payloads("structuredContent")}

(* !v *)
falsy(v) == v.t \in {"undefined", "null"} \/ (v.t = "primitive" /\ ~v.truthy)

(* v?.field *)
get(v, field) ==
  IF v.t # "object" THEN Undefined
  ELSE IF field = "result" THEN v.result
  ELSE IF field = "structuredContent" THEN v.structuredContent
  ELSE IF v.kind = None THEN Undefined
  ELSE [t |-> "string", value |-> v.kind[1]]

isWeatherKind(c) ==
  LET kind == get(c, "kind")
  IN  kind = [t |-> "string", value |-> "weather"]
      \/ kind = [t |-> "string", value |-> "weather_error"]

candidates(asObj) ==
  <<get(get(asObj, "result"), "structuredContent"),
    get(asObj, "structuredContent"),
    asObj>>

(* faulty variant: the toolOutput itself is looked at first *)
extractWeatherStructuredContentTopFirst(out) ==
  IF falsy(out) THEN Undefined
  ELSE LET cs == <<out, get(get(out, "result"), "structuredContent"),
                   get(out, "structuredContent")>>
           hits == {i \in 1..Len(cs) : isWeatherKind(cs[i])}
       IN  IF hits = {} THEN Undefined
           ELSE cs[CHOOSE i \in hits : \A j \in hits : i <= j]

extractWeatherStructuredContent(out) ==
  IF falsy(out) THEN Undefined
  ELSE LET cs == candidates(out)
           hits == {i \in 1..Len(cs) : isWeatherKind(cs[i])}
       IN  IF hits = {} THEN Undefined
           ELSE cs[CHOOSE i \in hits : \A j \in hits : i <= j]

Extract ==
  /\ exIn # None
  /\ exOut = None
  /\ exOut' = Some(extractWeatherStructuredContent(exIn[1]))
  /\ UNCHANGED <<weatherVars, wmoVars, exIn, inv, ageWidget, pageVars, food>>

InitExtract ==
  /\ WeatherIdle /\ WmoIdle /\ ConcIdle /\ WidgetIdle /\ PageIdle /\ FoodIdle
  /\ exIn \in {Some(v) : v \in ToolOutputs}
  /\ exOut = None

NextExtract == Extract

SpecExtract == InitExtract /\ [][NextExtract]_vars

(* ---------------------------- C15 -------------------------------------- *)

(* the value was produced by a get_weather result *)
KindIsWeather(v) ==
  v.t = "object" /\ v.kind \in {Some("weather"), Some("weather_error")}

(* C15: the result is the first of toolOutput.result.structuredContent,    *)
(* toolOutput.structuredContent and toolOutput whose kind is "weather" or  *)
(* "weather_error", and undefined when there is none or when toolOutput is *)
(* null or undefined.                                                      *)
C15_FirstWeatherCandidate ==
  exOut # None =>
    LET out == exIn[1]
        res == exOut[1]
        nested == IF out.t = "object" /\ out.result.t = "object"
                    THEN out.result.structuredContent ELSE Undefined
        direct == IF out.t = "object" THEN out.structuredContent ELSE Undefined
    IN  /\ out.t \in {"null", "undefined"} => res = Undefined
        /\ KindIsWeather(nested) => res = nested
        /\ (~KindIsWeather(nested) /\ KindIsWeather(direct)) => res = direct
        /\ (~KindIsWeather(nested) /\ ~KindIsWeather(direct) /\ KindIsWeather(out))
             => res = out
        /\ (~KindIsWeather(nested) /\ ~KindIsWeather(direct) /\ ~KindIsWeather(out))
             => res = Undefined

C15_Witness ==
  /\ exOut # None
  /\ exIn[1].t = "object"
  /\ exIn[1].kind = Some("weather")
  /\ exIn[1].result.t = "object"
  /\ exIn[1].result.structuredContent.t = "object"
  /\ exIn[1].result.structuredContent.kind = Some("forecast")
  /\ exOut[1].rest = "structuredContent"
  /\ exOut[1].kind = Some("weather_error")

(* ------------- the age-predictor widget (age-predictor route.ts) -------- *)

MaxEvents == 2

(* structuredContent of predict_age: a name, and Agify's age and count,    *)
(* which are numbers or null                                               *)
AgePayload(name, age, count) == [name |-> name, age |-> age, count |-> count]

AgePayloads ==
  {AgePayload(n, a, c) :
     n \in {EmptyStr, <<"A", "n", "n">>},
     a \in {None, Some(0), Some(42)},
     c \in {None, Some(0), Some(1234)}}

(* window.openai at load: absent, or present with or without a toolOutput *)
Globals ==
  {[openai |-> FALSE, toolOutput |-> None]}
  \cup {[openai |-> TRUE, toolOutput |-> o] : o \in Opt(AgePayloads)}

(* Number.prototype.toLocaleString of a natural number, with the grouping  *)
(* of the default English locale                                           *)
RECURSIVE toLocaleString(_)
toLocaleString(n) ==
  IF n < 1000 THEN NatToStr(n)
  ELSE toLocaleString(n \div 1000)
         \o <<",", Digit((n \div 100) % 10), Digit((n \div 10) % 10), Digit(n % 10)>>

(* the three elements of the document as served *)
Document ==
  [name |-> Str("Searching..."), age |-> Str("--"), count |-> Str("0")]

updateUI(doc, output) ==
  IF output = None THEN doc
  ELSE LET name == IF output[1].name = EmptyStr THEN Str("Unknown")
                   ELSE output[1].name
           age == IF output[1].age = None \/ output[1].age[1] = 0 THEN Str("??")
                  ELSE NatToStr(output[1].age[1])
           count == IF output[1].count = None THEN 0 ELSE output[1].count[1]
       IN  [name |-> name, age |-> age, count |-> toLocaleString(count)]

(* faulty variant: the listener is registered whatever the global holds *)
initAlwaysListening(w) ==
  IF w.global.openai /\ w.global.toolOutput # None
    THEN [w EXCEPT !.loaded = TRUE, !.listening = TRUE,
                   !.doc = updateUI(w.doc, w.global.toolOutput),
                   !.last = w.global.toolOutput]
    ELSE [w EXCEPT !.loaded = TRUE, !.listening = TRUE]

init(w) ==
  IF w.global.openai /\ w.global.toolOutput # None
    THEN [w EXCEPT !.loaded = TRUE,
                   !.doc = updateUI(w.doc, w.global.toolOutput),
                   !.last = w.global.toolOutput]
    ELSE [w EXCEPT !.loaded = TRUE, !.listening = TRUE]

(* the message listener; last is the most recent payload the host has      *)
(* delivered, whether or not the widget listened                           *)
onMessage(w, structuredContent) ==
  LET seen == [w EXCEPT !.events = @ + 1,
                        !.last = IF structuredContent = None THEN @
                                 ELSE structuredContent]
  IN  IF w.listening /\ structuredContent # None
        THEN [seen EXCEPT !.doc = updateUI(w.doc, structuredContent)]
        ELSE seen

widgetRest == <<weatherVars, wmoVars, extractVars, inv, pageVars, food>>

(* window.onload *)
WidgetLoad ==
  /\ ageWidget # None
  /\ ~ageWidget[1].loaded
  /\ ageWidget' = Some(init(ageWidget[1]))
  /\ UNCHANGED widgetRest

(* the host posts a message, with or without structuredContent *)
WidgetMessage ==
  /\ ageWidget # None
  /\ ageWidget[1].loaded
  /\ ageWidget[1].events < MaxEvents
  /\ \E sc \in Opt(AgePayloads) :
       ageWidget' = Some(onMessage(ageWidget[1], sc))
  /\ UNCHANGED widgetRest

InitWidget ==
  /\ WeatherIdle /\ WmoIdle /\ ConcIdle /\ ExtractIdle /\ PageIdle /\ FoodIdle
  /\ \E g \in Globals :
       ageWidget = Some([global |-> g, loaded |-> FALSE, listening |-> FALSE,
                         doc |-> Document, last |-> None, events |-> 0])

NextWidget == WidgetLoad \/ WidgetMessage

SpecWidget == InitWidget /\ [][NextWidget]_vars

(* ---------------------------- C16 -------------------------------------- *)

(* what the document shows for a payload: the name, or "Unknown" for an    *)
(* empty one; the age in decimal, or "??" for null and 0; the count with   *)
(* thousands separators, or "0" for null                                   *)
RenderingOf(p, doc) ==
  /\ doc.name = (IF p.name = EmptyStr THEN <<"Unknown">> ELSE p.name)
  /\ IF p.age \in {None, Some(0)} THEN doc.age = <<"??">>
     ELSE ParseNat(doc.age, 0) = <<p.age[1], <<>>>>
  /\ LET digits == SelectSeq(doc.count, IsDigit)
         n == IF p.count = None THEN 0 ELSE p.count[1]
     IN  /\ ParseNat(digits, 0) = <<n, <<>>>>
         /\ doc.count # <<>>
         /\ \A i \in 1..Len(doc.count) :
              doc.count[i] = "," <=> (i < Len(doc.count) /\ (Len(doc.count) - i) % 4 = 3)

(* C16 as stated: after load and any messages, the document shows the most *)
(* recent payload the host delivered.                                      *)
C16_ShowsMostRecentPayload ==
  (ageWidget # None /\ ageWidget[1].loaded /\ ageWidget[1].last # None) =>
    ageWidget[1].doc = updateUI(Document, ageWidget[1].last)

(* C16 as amended: with a toolOutput in the global at load the document    *)
(* shows that payload and no message changes it; without one it shows the  *)
(* payload of the most recent message that carried structuredContent, and  *)
(* the served texts until there is one; null, 0 and empty fields are shown *)
(* as "Unknown", "??" and "0".                                             *)
C16_ShownPayload ==
  (ageWidget # None /\ ageWidget[1].loaded) =>
    LET w == ageWidget[1]
    IN  IF w.global.openai /\ w.global.toolOutput # None
          THEN RenderingOf(w.global.toolOutput[1], w.doc)
          ELSE IF w.last = None THEN w.doc = Document
          ELSE RenderingOf(w.last[1], w.doc)

C16_Witness ==
  /\ ageWidget # None
  /\ ageWidget[1].events = 2
  /\ ageWidget[1].global.toolOutput # None
  /\ ageWidget[1].last # ageWidget[1].global.toolOutput
  /\ ageWidget[1].last # None
  /\ ageWidget[1].last[1].count = Some(1234)
  /\ ageWidget[1].global.toolOutput[1].age = None
  /\ ageWidget[1].doc.age = <<"??">>

(* ------------------ concurrent get_weather invocations ------------------ *)

NumInvocations == 2

Invocations == 1..NumInvocations

ConcCities == {<<" ">>, <<"a">>}

ConcGeoOutcomes ==
  {Reject(Str("fetch failed")),
   Response(200, Some(Str("{}")), JsonObject([results |-> None])),
   Response(200, Some(Str("{..}")),
            JsonObject([results |->
              Some(<<GeoMatch(Str("Paris"), None, Some(Str("France")), 489, 23, None)>>)])),
   Response(200, Some(Str("{..}")),
            JsonObject([results |->
              Some(<<GeoMatch(Str("Quito"), None, Some(Str("Ecuador")), -2, -785, None)>>)]))}

ConcForecastOutcomes ==
  {Response(500, Some(EmptyStr), JsonError),
   Response(200, Some(Str("{..}")),
            JsonObject(Forecast(Some(Str("Europe/Berlin")), FullCurrent, FullDaily, None))),
   Response(200, Some(Str("{..}")),
            JsonObject(Forecast(None, None, FullDaily, None)))}

(* faulty variant: the locals of every invocation live in one place *)
frameShared(i) == 1

(* where the locals of invocation i of getWeatherForCity live: each call   *)
(* of the function has its own                                             *)
frame(i) == i

(* invocation i reaches an await: it issues the call and keeps `best` *)
ConcIssue(i, c, next) ==
  inv' = Some([inv[1] EXCEPT !.runs[i].pc = next,
                             !.runs[i].url = c.url,
                             !.runs[i].calls = @ + 1,
                             !.frames[frame(i)] = IF c.best = None THEN @ ELSE c.best])

ConcSettle(i, settled) ==
  inv' = Some([inv[1] EXCEPT !.runs[i].pc = "done",
                             !.runs[i].response = settled.response])

concRest == <<weatherVars, wmoVars, extractVars, ageWidget, pageVars, food>>

ConcStart ==
  /\ inv # None
  /\ \E i \in Invocations :
       /\ inv[1].runs[i].pc = "ready"
       /\ LET c == getWeatherForCityStart(inv[1].runs[i].city)
          IN  IF c.tag = "await" THEN ConcIssue(i, c, "geo")
              ELSE ConcSettle(i, handler(inv[1].runs[i].city, c))
  /\ UNCHANGED concRest

ConcGeocoded ==
  /\ inv # None
  /\ \E i \in Invocations :
       /\ inv[1].runs[i].pc = "geo"
       /\ LET run == inv[1].runs[i]
              c == getWeatherForCityGeo(run.city, fetchJsonOrThrow(run.url, run.upGeo))
          IN  IF c.tag = "await" THEN ConcIssue(i, c, "forecast")
              ELSE ConcSettle(i, handler(run.city, c))
  /\ UNCHANGED concRest

ConcForecasted ==
  /\ inv # None
  /\ \E i \in Invocations :
       /\ inv[1].runs[i].pc = "forecast"
       /\ LET run == inv[1].runs[i]
          IN  ConcSettle(i, handler(run.city,
                                    getWeatherForCityForecast(
                                      run.city, inv[1].frames[frame(i)][1],
                                      fetchJsonOrThrow(run.url, run.upFc))))
  /\ UNCHANGED concRest

InitConc ==
  /\ WeatherIdle /\ WmoIdle /\ ExtractIdle /\ WidgetIdle /\ PageIdle /\ FoodIdle
  /\ \E cs \in [Invocations -> ConcCities],
        gs \in [Invocations -> ConcGeoOutcomes],
        fs \in [Invocations -> ConcForecastOutcomes] :
       inv = Some([runs |-> [i \in Invocations |->
                               [city |-> cs[i], upGeo |-> gs[i], upFc |-> fs[i],
                                pc |-> "ready", url |-> EmptyStr, calls |-> 0,
                                response |-> None]],
                   frames |-> [i \in Invocations |-> None]])

NextConc == ConcStart \/ ConcGeocoded \/ ConcForecasted

SpecConc == InitConc /\ [][NextConc]_vars

(* ---------------------------- C12 -------------------------------------- *)

(* what get_weather answers when the invocation runs on its own *)
Alone(c, geo, fc) ==
  LET s == getWeatherForCityStart(c)
  IN  IF s.tag # "await" THEN handler(c, s).response
      ELSE LET g == getWeatherForCityGeo(c, fetchJsonOrThrow(s.url, geo))
           IN  IF g.tag # "await" THEN handler(c, g).response
               ELSE handler(c, getWeatherForCityForecast(
                                 c, g.best[1], fetchJsonOrThrow(g.url, fc))).response

(* C12: under every interleaving of the invocations' calls, the response   *)
(* of each invocation is the one determined by its own city and the        *)
(* upstream responses to its own calls.                                    *)
C12_InvocationsIndependent ==
  inv # None =>
    \A i \in Invocations :
      inv[1].runs[i].pc = "done" =>
        inv[1].runs[i].response =
          Alone(inv[1].runs[i].city, inv[1].runs[i].upGeo, inv[1].runs[i].upFc)

C12_Witness ==
  /\ inv # None
  /\ \A i \in Invocations : inv[1].runs[i].pc = "done" /\ inv[1].runs[i].calls = 2
  /\ inv[1].runs[1].response[1].structuredContent.kind = "weather"
  /\ inv[1].runs[2].response[1].structuredContent.kind = "weather"
  /\ inv[1].runs[1].response[1].structuredContent.location.name[1] = "Paris"
  /\ inv[1].runs[2].response[1].structuredContent.location.name[1] = "Quito"

(* ------------------- geocodeLocation (fast-food service) ---------------- *)

(* the parsed body of a Nominatim response: an array of places *)
JsonArray(v) == [parse |-> "array", value |-> v]

Place(lat, lon, display_name) ==
  [lat |-> lat, lon |-> lon, display_name |-> display_name]

Places ==
  {Place(<<"4", "8", ".", "9">>, <<"2", ".", "3">>, Str("Paris, France")),
   Place(<<"-", "0", ".", "2">>, <<"-", "7", "8", ".", "5">>, Str("Quito, Ecuador"))}

NominatimOutcomes ==
  {Reject(Str("fetch failed")),
   Response(404, Some(Str("Not Found")), JsonError),
   Response(500, Some(Str("[]")), JsonArray(<<>>)),
   Response(200, Some(Str("<html>")), JsonError),
   Response(200, Some(Str("null")), JsonNull),
   Response(200, Some(Str("[]")), JsonArray(<<>>))}
  \cup {Response(200, Some(Str("[..]")), JsonArray(<<p>>)) : p \in Places}
  \cup {Response(200, Some(Str("[..]")), JsonArray(<<p, q>>)) :
          p \in Places, q \in Places}

FoodQueries == {<<"a">>, <<"a", " ", "a">>}

(* URLSearchParams serialisation: a space becomes "+" *)
RECURSIVE formEncode(_)
formEncode(s) ==
  IF s = <<>> THEN <<>>
  ELSE (IF Head(s) = " " THEN <<"+">> ELSE <<Head(s)>>) \o formEncode(Tail(s))

(* parseFloat of a decimal string, in tenths *)
parseFloat(s) == ParseNum(s)

nominatimUrl(query) ==
  Str("https://nominatim.openstreetmap.org/search?q=")
    \o formEncode(query)
    \o Str("&format=json&limit=1")

(* faulty variant: the last element of the array is taken *)
geocodeLocationTryLast(outcome) ==
  IF outcome.kind = "reject" THEN Throw(outcome.error)
  ELSE IF ~ok(outcome) THEN Return(None)
  ELSE IF outcome.json.parse = "error" THEN Throw(SyntaxError)
  ELSE IF outcome.json.parse = "null" THEN Return(None)
  ELSE IF Len(outcome.json.value) > 0
    THEN LET last == outcome.json.value[Len(outcome.json.value)]
         IN  Return(Some([lat |-> parseFloat(last.lat),
                          lon |-> parseFloat(last.lon),
                          display_name |-> last.display_name]))
  ELSE Return(None)

(* the try block of geocodeLocation, from the answer of fetch on *)
geocodeLocationTry(outcome) ==
  IF outcome.kind = "reject" THEN Throw(outcome.error)
  ELSE IF ~ok(outcome) THEN Return(None)
  ELSE IF outcome.json.parse = "error" THEN Throw(SyntaxError)
  ELSE IF outcome.json.parse = "null" THEN Return(None)
  ELSE IF Len(outcome.json.value) > 0
    THEN LET first == outcome.json.value[1]
         IN  Return(Some([lat |-> parseFloat(first.lat),
                          lon |-> parseFloat(first.lon),
                          display_name |-> first.display_name]))
  ELSE Return(None)

(* faulty variant: the catch block is missing *)
geocodeLocationNoCatch(outcome) == geocodeLocationTry(outcome)

(* geocodeLocation from the answer of fetch on, with its catch block *)
geocodeLocation(outcome) ==
  LET c == geocodeLocationTry(outcome)
  IN  IF c.tag = "throw" THEN Return(None) ELSE c

foodRest == <<weatherVars, wmoVars, extractVars, inv, ageWidget, pageVars>>

(* geocodeLocation up to its await of fetch *)
FoodGeocodeStart ==
  /\ food # None
  /\ food[1].pc = "ready"
  /\ food' = Some([food[1] EXCEPT !.pc = "fetch",
                                  !.calls = Append(@, nominatimUrl(food[1].query))])
  /\ UNCHANGED foodRest

FoodGeocoded ==
  /\ food # None
  /\ food[1].pc = "fetch"
  /\ food' = Some([food[1] EXCEPT !.pc = "done",
                                  !.result = Some(geocodeLocation(food[1].upstream))])
  /\ UNCHANGED foodRest

FoodReady ==
  \E q \in FoodQueries, o \in NominatimOutcomes :
    food = Some([query |-> q, upstream |-> o, pc |-> "ready", calls |-> <<>>,
                 result |-> None])

(* The weather composers and geocodeLocation, each run once against its    *)
(* own geocoder.                                                           *)
InitGeocoders ==
  /\ city \in {<<"a">>, <<" ", "a">>}
  /\ upGeo \in GeoOutcomes
  /\ upFc \in {Reject(Str("fetch failed")),
               Response(200, Some(Str("{..}")),
                        JsonObject(Forecast(None, FullCurrent, FullDaily, None)))}
  /\ pc = [s \in Sides |-> "ready"]
  /\ calls = [s \in Sides |-> <<>>]
  /\ best = [s \in Sides |-> None]
  /\ response = [s \in Sides |-> None]
  /\ thrown = [s \in Sides |-> None]
  /\ WmoIdle /\ ConcIdle /\ ExtractIdle /\ WidgetIdle /\ PageIdle
  /\ FoodReady

NextGeocoders == Next \/ FoodGeocodeStart \/ FoodGeocoded

SpecGeocoders == InitGeocoders /\ [][NextGeocoders]_vars

(* ---------------------------- C14 -------------------------------------- *)

(* the geocoding request failed: network exception or non-success status *)
RequestFailed(o) == o.kind = "reject" \/ NonSuccess(o)

(* the Nominatim response has no results *)
NoPlace(o) == IsResponse(o) /\ ~NonSuccess(o) /\ o.json = JsonArray(<<>>)

FoodDone == food # None /\ food[1].pc = "done"

(* how a weather composer words "no match" *)
SaysNoMatch(s) ==
  /\ Structured(s).kind = "weather_error"
  /\ Structured(s).error # <<>>
  /\ Structured(s).error[1] = "Couldn't find a location for \""

(* how geocodeLocation answers "no match" *)
NoMatchAnswer == Return(None)

(* C14 as stated: in the weather composers and in geocodeLocation, a       *)
(* failed geocoding request never has the outcome of "no match".           *)
C14_FailureDistinctFromNoMatch ==
  /\ \A s \in Sides :
       Done(s) => /\ NoMatch(upGeo) => SaysNoMatch(s)
                  /\ RequestFailed(upGeo) => ~SaysNoMatch(s)
  /\ FoodDone =>
       /\ NoPlace(food[1].upstream) => food[1].result = Some(NoMatchAnswer)
       /\ RequestFailed(food[1].upstream) => food[1].result # Some(NoMatchAnswer)

(* C14 as amended: the weather composers answer "no match" with the        *)
(* message that names the query and a failed request with another          *)
(* weather_error message; geocodeLocation answers null both for no match   *)
(* and for a failed request.                                               *)
C14_GeocoderSignals ==
  /\ \A s \in Sides :
       Done(s) => /\ Returned(s)
                  /\ NoMatch(upGeo) => SaysNoMatch(s)
                  /\ RequestFailed(upGeo) =>
                       /\ Structured(s).kind = "weather_error"
                       /\ ~SaysNoMatch(s)
  /\ (FoodDone /\ (NoPlace(food[1].upstream) \/ RequestFailed(food[1].upstream)))
       => food[1].result = Some(Return(None))

C14_Witness ==
  /\ \A s \in Sides : Done(s)
  /\ RequestFailed(upGeo)
  /\ FoodDone
  /\ food[1].upstream.kind = "reject"
  /\ Len(food[1].calls) = 1
  /\ food[1].result = Some(Return(None))

(* ----------------------------- Home (page.tsx) -------------------------- *)

MaxRequests == 2

PageCities == {<<" ">>, <<"a">>, <<"A", " ">>}

PageGeoOutcomes ==
  {Reject(Str("fetch failed")),
   Response(200, Some(Str("{..}")),
            JsonObject([results |->
              Some(<<GeoMatch(Str("Paris"), None, Some(Str("France")), 489, 23, None)>>)]))}

PageForecastOutcomes ==
  {Response(200, Some(Str("{..}")),
            JsonObject(Forecast(None, FullCurrent, FullDaily, None)))}

(* String.prototype.toLowerCase *)
toLowerCase(s) == [i \in 1..Len(s) |-> IF s[i] = "A" THEN "a" ELSE s[i]]

(* fetchWeatherOpenMeteo from call to return, given what its two calls get *)
fetchWeatherOpenMeteo(c, geoRes, fcRes) ==
  LET s == fetchWeatherOpenMeteoStart(c)
  IN  IF s.tag # "await" THEN s
      ELSE LET g == fetchWeatherOpenMeteoGeo(c, geoRes)
           IN  IF g.tag # "await" THEN g
               ELSE fetchWeatherOpenMeteoForecast(c, g.best[1], fcRes)

(* the structuredContent the host gets from get_weather for a city *)
toolStructuredContent(c, geoRes, fcRes) ==
  LET s == getWeatherForCityStart(c)
      done ==
        IF s.tag # "await" THEN s
        ELSE LET g == getWeatherForCityGeo(c, fetchJsonOrThrow(s.url, geoRes))
             IN  IF g.tag # "await" THEN g
                 ELSE getWeatherForCityForecast(c, g.best[1],
                                                fetchJsonOrThrow(g.url, fcRes))
  IN  handler(c, done).response[1].structuredContent

(* the toolOutput the host sets for a structuredContent: the content       *)
(* itself, or an object that holds it                                      *)
hostToolOutput(sc, wrapped) ==
  LET content == Object(Some(sc), Some(sc.kind), Undefined, Undefined)
  IN  IF wrapped THEN Object(None, None, Undefined, content) ELSE content

(* useWidgetProps({}): the default is the empty object *)
useWidgetProps == IF toolOutput = None THEN Object(None, None, Undefined, Undefined)
                  ELSE toolOutput[1].value

(* weather ?? localWeather ?? undefined *)
effectiveWeather ==
  LET weather == extractWeatherStructuredContent(useWidgetProps)
  IN  IF weather # Undefined THEN weather.rest ELSE localWeather

(* the body of the effect: the new pendingCity *)
useEffect ==
  IF pendingCity = None THEN pendingCity
  ELSE IF effectiveWeather = None THEN pendingCity
  ELSE IF toLowerCase(effectiveWeather[1].query) = toLowerCase(pendingCity[1])
    THEN None
  ELSE pendingCity

Request(trimmed, stage) == [city |-> trimmed, stage |-> stage, delivered |-> FALSE]

(* requestWeather up to its await, or to its return for a blank city *)
requestWeather ==
  /\ Len(requests) < MaxRequests
  /\ LET trimmed == trim(cityInput)
     IN  IF trimmed = EmptyStr
           THEN /\ requests' = Append(requests, Request(trimmed, "returned"))
                /\ UNCHANGED <<pendingCity, localWeather, requestError, effectDue>>
           ELSE /\ requestError' = None
                /\ pendingCity' = Some(trimmed)
                /\ localWeather' = None
                /\ effectDue' = TRUE
                /\ requests' = Append(requests,
                                      Request(trimmed,
                                              IF isChatGptApp THEN "sending"
                                              ELSE "fetching"))
  /\ UNCHANGED <<isChatGptApp, cityInput, toolOutput>>

pageRest == <<weatherVars, wmoVars, extractVars, inv, ageWidget, food>>

(* onChange of the input *)
SetCity ==
  /\ ~effectDue
  /\ \E c \in PageCities : cityInput' = c
  /\ UNCHANGED <<isChatGptApp, pendingCity, localWeather, requestError, toolOutput,
                 requests, effectDue, pageRest>>

(* onClick of the button, which is disabled for a blank city and while     *)
(* pendingCity is set                                                      *)
ClickSearch ==
  /\ ~effectDue
  /\ trim(cityInput) # EmptyStr
  /\ pendingCity = None
  /\ requestWeather
  /\ UNCHANGED pageRest

(* onKeyDown of the input with the Enter key *)
PressEnter ==
  /\ ~effectDue
  /\ requestWeather
  /\ UNCHANGED pageRest

(* faulty variant: the pending flag is left as it is *)
afterFetchKeepsPending(w, pending) == [localWeather |-> Some(w), pendingCity |-> pending]

(* setLocalWeather(w); setPendingCity(null) *)
afterFetch(w, pending) == [localWeather |-> Some(w), pendingCity |-> None]

(* the catch block of requestWeather *)
requestFailed(e) ==
  [pendingCity |-> None,
   requestError |-> Some(IF e.isError THEN e.message
                         ELSE Str("Failed to request weather."))]

(* outside the host: fetchWeatherOpenMeteo of a request settles *)
LocalWeatherArrives ==
  /\ ~effectDue
  /\ \E i \in 1..Len(requests), geoRes \in PageGeoOutcomes,
        fcRes \in PageForecastOutcomes :
       /\ requests[i].stage = "fetching"
       /\ requests' = [requests EXCEPT ![i].stage = "done"]
       /\ LET c == fetchWeatherOpenMeteo(requests[i].city, geoRes, fcRes)
          IN  IF c.tag = "throw"
                THEN /\ pendingCity' = requestFailed(c.error).pendingCity
                     /\ requestError' = requestFailed(c.error).requestError
                     /\ UNCHANGED localWeather
                ELSE /\ localWeather' = afterFetch(c.value, pendingCity).localWeather
                     /\ pendingCity' = afterFetch(c.value, pendingCity).pendingCity
                     /\ UNCHANGED requestError
  /\ effectDue' = TRUE
  /\ UNCHANGED <<isChatGptApp, cityInput, toolOutput, pageRest>>

(* inside the host: the promise of sendMessage resolves *)
SendMessageResolves ==
  /\ ~effectDue
  /\ \E i \in 1..Len(requests) :
       /\ requests[i].stage = "sending"
       /\ requests' = [requests EXCEPT ![i].stage = "sent"]
  /\ UNCHANGED <<isChatGptApp, cityInput, pendingCity, localWeather, requestError,
                 toolOutput, effectDue, pageRest>>

(* inside the host: the promise of sendMessage rejects *)
SendMessageRejects ==
  /\ ~effectDue
  /\ \E i \in 1..Len(requests),
        e \in {Error(Str("send failed")), [isError |-> FALSE, message |-> EmptyStr]} :
       /\ requests[i].stage = "sending"
       /\ requests' = [requests EXCEPT ![i].stage = "rejected"]
       /\ pendingCity' = requestFailed(e).pendingCity
       /\ requestError' = requestFailed(e).requestError
  /\ effectDue' = TRUE
  /\ UNCHANGED <<isChatGptApp, cityInput, localWeather, toolOutput, pageRest>>

(* inside the host: the model has called get_weather for a request and the *)
(* host hands the result to the widget                                     *)
HostDelivers ==
  /\ ~effectDue
  /\ \E i \in 1..Len(requests), geoRes \in PageGeoOutcomes,
        fcRes \in PageForecastOutcomes, wrapped \in BOOLEAN :
       /\ requests[i].stage \in {"sending", "sent"}
       /\ ~requests[i].delivered
       /\ requests' = [requests EXCEPT ![i].delivered = TRUE]
       /\ toolOutput' =
            Some([value |-> hostToolOutput(
                              toolStructuredContent(requests[i].city, geoRes, fcRes),
                              wrapped),
                  req |-> i])
  /\ effectDue' = TRUE
  /\ UNCHANGED <<isChatGptApp, cityInput, pendingCity, localWeather, requestError,
                 pageRest>>

(* the effect runs after a render that changed pendingCity or the weather *)
Effect ==
  /\ effectDue
  /\ effectDue' = FALSE
  /\ pendingCity' = useEffect
  /\ UNCHANGED <<isChatGptApp, cityInput, localWeather, requestError, toolOutput,
                 requests, pageRest>>

InitPage ==
  /\ WeatherIdle /\ WmoIdle /\ ConcIdle /\ ExtractIdle /\ WidgetIdle /\ FoodIdle
  /\ cityInput = EmptyStr
  /\ pendingCity = None
  /\ localWeather = None
  /\ requestError = None
  /\ toolOutput = None
  /\ requests = <<>>
  /\ effectDue = FALSE

InitLocal == InitPage /\ isChatGptApp = FALSE

InitHost == InitPage /\ isChatGptApp = TRUE

NextLocal == SetCity \/ ClickSearch \/ PressEnter \/ LocalWeatherArrives \/ Effect

NextHost ==
  \/ SetCity
  \/ ClickSearch
  \/ PressEnter
  \/ SendMessageResolves
  \/ SendMessageRejects
  \/ HostDelivers
  \/ Effect

(* every fetch settles, and React runs a due effect *)
SpecLocal ==
  InitLocal /\ [][NextLocal]_vars /\ WF_vars(LocalWeatherArrives) /\ WF_vars(Effect)

SpecHost == InitHost /\ [][NextHost]_vars

(* ---------------------------- C19 -------------------------------------- *)

(* request i completes in this step *)
Completes(i) ==
  /\ i <= Len(requests)
  /\ requests[i].stage = "fetching"
  /\ requests'[i].stage = "done"

(* a call of requestWeather is made in this step *)
Called == Len(requests') = Len(requests) + 1

C19_NoRequestError == ~isChatGptApp => requestError = None

C19_CompletionStep ==
  \A i \in 1..MaxRequests :
    Completes(i) =>
      /\ pendingCity' = None
      /\ localWeather' # None
      /\ localWeather'[1].kind \in {"weather", "weather_error"}
      /\ localWeather'[1].query = requests[i].city
      /\ requests[i].city = Trimmed(requests[i].city)
      /\ requests[i].city # EmptyStr

C19_BlankStep ==
  (Called /\ Blank(cityInput)) =>
    UNCHANGED <<cityInput, pendingCity, localWeather, requestError, toolOutput,
                effectDue>>

C19_Started(i) == i <= Len(requests) /\ requests[i].stage = "fetching"

C19_Finished(i) == i <= Len(requests) /\ requests[i].stage = "done"

(* C19: outside the host, every requestWeather call for a city that is not *)
(* blank is followed by its completion, which sets pendingCity to null and *)
(* localWeather to a weather or weather_error result whose query is the    *)
(* trimmed city; requestError is never set; a call for a blank city        *)
(* changes no state of the page.                                           *)
C19_LocalRequestTerminates ==
  /\ []C19_NoRequestError
  /\ [][C19_CompletionStep]_vars
  /\ [][C19_BlankStep]_vars
  /\ [][(Called /\ ~Blank(cityInput)) =>
          requests'[Len(requests')].stage = "fetching"]_vars
  /\ \A i \in 1..MaxRequests : C19_Started(i) ~> C19_Finished(i)

C19_Witness ==
  /\ ~isChatGptApp
  /\ Len(requests) = 2
  /\ requests[1].stage = "done"
  /\ requests[2].stage = "returned"
  /\ pendingCity = None
  /\ localWeather # None
  /\ localWeather[1].kind = "weather"
  /\ localWeather[1].query = <<"A">>

(* ---------------------------- C20 -------------------------------------- *)

(* the request that set pendingCity: the latest call for a city that is    *)
(* not blank                                                               *)
PendingRequest ==
  CHOOSE i \in 1..Len(requests) :
    /\ requests[i].stage # "returned"
    /\ \A j \in (i + 1)..Len(requests) : requests[j].stage = "returned"

(* C20: inside the host, pendingCity goes back to null only in a step in   *)
(* which sendMessage rejects (and requestError is set) or in which the     *)
(* page sees the tool result that the host delivered for the pending       *)
(* request.                                                                *)
C20_ClearedOnlyByResultOrRejection ==
  [][(isChatGptApp /\ pendingCity # None /\ pendingCity' = None) =>
       \/ requestError = None /\ requestError' # None
       \/ /\ toolOutput # None
          /\ toolOutput[1].req = PendingRequest
          /\ effectDue /\ ~effectDue']_vars

(* ---------------------------- C21 -------------------------------------- *)

(* the requests whose fetch or sendMessage has not settled *)
InFlight == {i \in 1..Len(requests) : requests[i].stage \in {"fetching", "sending"}}

(* C21: no call of requestWeather for a city that is not blank starts      *)
(* while pendingCity is set, so at most one request is in flight.          *)
C21_OneRequestInFlight ==
  [][(Called /\ ~Blank(cityInput)) => (pendingCity = None /\ InFlight = {})]_vars

(* ---------------------------- C22 -------------------------------------- *)

(* the calls of requestWeather that started a request *)
StartedRequests == {i \in 1..Len(requests) : requests[i].stage # "returned"}

(* C22: outside the host, once every started request has completed,        *)
(* pendingCity is null and localWeather is the result of the request       *)
(* started last.                                                           *)
C22_LastRequestWins ==
  (~isChatGptApp /\ StartedRequests # {} /\ InFlight = {}) =>
    /\ pendingCity = None
    /\ localWeather # None
    /\ localWeather[1].query = requests[PendingRequest].city

(* ---------------------------- C23 -------------------------------------- *)

(* C23: for the same city and upstream outcomes the tool's                 *)
(* structuredContent and the page's value have the same kind, and for kind *)
(* weather the same query, source, location, current and today.            *)
C23_ComposersEquivalent ==
  (Returned("tool") /\ Returned("page")) =>
    /\ Structured("tool").kind = Structured("page").kind
    /\ Structured("tool").kind = "weather" =>
         /\ Structured("tool").query = Structured("page").query
         /\ Structured("tool").source = Structured("page").source
         /\ Structured("tool").location = Structured("page").location
         /\ Structured("tool").current = Structured("page").current
         /\ Structured("tool").today = Structured("page").today

(* ---------------------------- C24 -------------------------------------- *)

(* the Nominatim response is a success with a result array that is not     *)
(* empty                                                                   *)
HasPlace(o) ==
  /\ IsResponse(o) /\ ~NonSuccess(o)
  /\ o.json.parse = "array"
  /\ o.json.value # <<>>

(* res.json() of the Nominatim response raises *)
ParsingRaises(o) == IsResponse(o) /\ ~NonSuccess(o) /\ o.json.parse = "error"

(* C24: geocodeLocation makes one call and never throws; it returns null   *)
(* for a non-success status, an empty result array, a rejected request and *)
(* a body that does not parse, and otherwise the lat, lon and display_name  *)
(* of the first element of the result array.                               *)
C24_GeocodeLocation ==
  food # None =>
    LET up == food[1].upstream
    IN  /\ Len(food[1].calls) = (IF food[1].pc = "ready" THEN 0 ELSE 1)
        /\ FoodDone =>
             /\ food[1].result # None
             /\ food[1].result[1].tag = "return"
             /\ (RequestFailed(up) \/ NoPlace(up) \/ ParsingRaises(up)) =>
                  food[1].result[1].value = None
             /\ HasPlace(up) =>
                  /\ food[1].result[1].value # None
                  /\ NumToStr(food[1].result[1].value[1].lat) = up.json.value[1].lat
                  /\ NumToStr(food[1].result[1].value[1].lon) = up.json.value[1].lon
                  /\ food[1].result[1].value[1].display_name
                       = up.json.value[1].display_name
                  /\ DOMAIN food[1].result[1].value[1] = {"lat", "lon", "display_name"}

C24_Witness ==
  /\ FoodDone
  /\ HasPlace(food[1].upstream)
  /\ Len(food[1].upstream.json.value) = 2
  /\ food[1].upstream.json.value[1] # food[1].upstream.json.value[2]
  /\ food[1].result[1].value[1].display_name = Str("Quito, Ecuador")
  /\ food[1].result[1].value[1].lat = -2

(* ------------------ searchNearbyShops (fast-food service) --------------- *)

MaxElements == 2

(* What the Overpass endpoint does with the request.  An element has a     *)
(* type, an id, coordinates (nodes only) and tags (an object, possibly     *)
(* empty, or absent).                                                      *)
OverpassOutcomes ==
  LET Element(type, id, lat, lon, tags) ==
        [type |-> type, id |-> id, lat |-> lat, lon |-> lon, tags |-> tags]
      pool ==
        {Element("node", 1, Some(489), Some(23), Some(<<<<"name", "KFC">>>>)),
         Element("node", 2, Some(490), Some(24), None),
         Element("way", 3, None, None, Some(<<<<"shop", "bakery">>>>)),
         Element("node", 4, Some(488), Some(22), Some(<<>>))}
  IN  {Reject(Str("fetch failed")),
       Response(429, Some(Str("Too Many Requests")), JsonError),
       Response(200, Some(Str("<html>")), JsonError),
       Response(200, Some(Str("null")), JsonNull),
       Response(200, Some(Str("{}")), JsonObject([elements |-> None]))}
      \cup {Response(200, Some(Str("{..}")), JsonObject([elements |-> Some(es)])) :
              es \in UNION {[1..n -> pool] : n \in 0..MaxElements}}

(* faulty variant: the filter is built whatever the type is *)
typeFilterUnconditional(type) ==
  Str("[~\"cuisine|name\"~\"") \o OrElse(type, EmptyStr) \o Str("\",i]")

typeFilter(type) ==
  IF type = None \/ type[1] = EmptyStr THEN EmptyStr
  ELSE Str("[~\"cuisine|name\"~\"") \o type[1] \o Str("\",i]")

(* the body of the POST request: data= and the encoded Overpass QL query *)
overpassBody(lat, lon, radiusMeters, type) ==
  LET around == Str("(around:") \o IntToStr(OrElse(radiusMeters, 5000))
                  \o Str(",") \o NumToStr(lat) \o Str(",") \o NumToStr(lon)
      query ==
        Str("[out:json][timeout:25];(node[\"amenity\"=\"fast_food\"]")
          \o typeFilter(type) \o around
          \o Str(");node[\"amenity\"=\"restaurant\"]") \o typeFilter(type) \o around
          \o Str(");node[\"amenity\"=\"cafe\"]") \o typeFilter(type) \o around
          \o Str(");node[\"shop\"]") \o typeFilter(type) \o around
          \o Str(");)out body;>;out skel qt;")
  IN  Str("data=") \o encodeURIComponent(query)

(* the try block of searchNearbyShops, from the answer of fetch on *)
searchNearbyShopsTry(outcome) ==
  IF outcome.kind = "reject" THEN Throw(outcome.error)
  ELSE IF ~ok(outcome) THEN Return(<<>>)
  ELSE IF outcome.json.parse = "error" THEN Throw(SyntaxError)
  ELSE IF outcome.json.parse = "null" THEN Throw(TypeError("elements"))
  ELSE IF outcome.json.value.elements = None THEN Throw(TypeError("filter"))
  ELSE LET keep(el) == el.type = "node" /\ el.tags # None
           kept == SelectSeq(outcome.json.value.elements[1], keep)
       IN  Return([i \in 1..Len(kept) |->
                     [id |-> kept[i].id, lat |-> kept[i].lat, lon |-> kept[i].lon,
                      tags |-> kept[i].tags[1]]])

(* searchNearbyShops from the answer of fetch on, with its catch block *)
searchNearbyShops(outcome) ==
  LET c == searchNearbyShopsTry(outcome)
  IN  IF c.tag = "throw" THEN Return(<<>>) ELSE c

(* searchNearbyShops up to its await of fetch *)
ShopsStart ==
  /\ food # None
  /\ food[1].pc = "ready"
  /\ food' = Some([food[1] EXCEPT
                     !.pc = "fetch",
                     !.calls = Append(@, overpassBody(food[1].lat, food[1].lon,
                                                      food[1].radiusMeters,
                                                      food[1].type))])
  /\ UNCHANGED foodRest

ShopsFetched ==
  /\ food # None
  /\ food[1].pc = "fetch"
  /\ food' = Some([food[1] EXCEPT !.pc = "done",
                                  !.result = Some(searchNearbyShops(food[1].upstream))])
  /\ UNCHANGED foodRest

InitShops ==
  /\ WeatherIdle /\ WmoIdle /\ ConcIdle /\ ExtractIdle /\ WidgetIdle /\ PageIdle
  /\ \E ll \in {<<489, 23>>, <<-2, -785>>}, r \in {None, Some(100)},
        t \in {None, Some(EmptyStr), Some(<<"a", " ", "b">>)},
        o \in OverpassOutcomes :
       food = Some([lat |-> ll[1], lon |-> ll[2], radiusMeters |-> r, type |-> t,
                    upstream |-> o, pc |-> "ready", calls |-> <<>>, result |-> None])

NextShops == ShopsStart \/ ShopsFetched

SpecShops == InitShops /\ [][NextShops]_vars

(* ---------------------------- C25 -------------------------------------- *)

(* the literal text that opens each of the four clauses of the query *)
ClauseHeads ==
  {"[out:json][timeout:25];(node[\"amenity\"=\"fast_food\"]",
   ");node[\"amenity\"=\"restaurant\"]",
   ");node[\"amenity\"=\"cafe\"]",
   ");node[\"shop\"]"}

(* the elements of the response, when it is a success with an elements     *)
(* array                                                                   *)
HasElements(o) ==
  /\ IsResponse(o) /\ ~NonSuccess(o)
  /\ o.json.parse = "object"
  /\ o.json.value.elements # None

(* C25: searchNearbyShops never throws; from a successful response it      *)
(* returns, in upstream order, the elements of type "node" that have tags, *)
(* each as id, lat, lon and tags; it returns the empty list for a          *)
(* non-success status and for every exception; the cuisine/name filter     *)
(* follows each of the four clause heads of the query when a type that is  *)
(* not empty is given, and none of them otherwise.                         *)
C25_SearchNearbyShops ==
  (food # None /\ food[1].pc # "ready") =>
    LET up == food[1].upstream
        body == food[1].calls[1]
        heads == {i \in 1..Len(body) : body[i] \in ClauseHeads}
        filters == {i \in 1..Len(body) : body[i] = "[~\"cuisine|name\"~\""}
        given == food[1].type # None /\ food[1].type[1] # <<>>
    IN  /\ Len(food[1].calls) = 1
        /\ Cardinality(heads) = 4
        /\ IF given
             THEN /\ filters = {i + 1 : i \in heads}
                  /\ \A i \in filters :
                       SubSeq(body, i + 1, i + Len(encodeURIComponent(food[1].type[1])))
                         = encodeURIComponent(food[1].type[1])
                  /\ \A i \in filters :
                       body[i + Len(encodeURIComponent(food[1].type[1])) + 1] = "\",i]"
             ELSE /\ filters = {}
                  /\ \A i \in heads : body[i + 1] = "(around:"
        /\ food[1].pc = "done" =>
             /\ food[1].result # None
             /\ food[1].result[1].tag = "return"
             /\ (RequestFailed(up) \/ ParsingRaises(up) \/ ~HasElements(up)) =>
                  food[1].result[1].value = <<>>
             /\ (HasElements(up) /\ ~RequestFailed(up)) =>
                  LET els == up.json.value.elements[1]
                      res == food[1].result[1].value
                      idx == {i \in 1..Len(els) :
                                els[i].type = "node" /\ els[i].tags # None}
                      rank(i) == Cardinality({j \in idx : j <= i})
                  IN  /\ Len(res) = Cardinality(idx)
                      /\ \A i \in idx :
                           /\ DOMAIN res[rank(i)] = {"id", "lat", "lon", "tags"}
                           /\ res[rank(i)].id = els[i].id
                           /\ res[rank(i)].lat = els[i].lat
                           /\ res[rank(i)].lon = els[i].lon
                           /\ res[rank(i)].tags = els[i].tags[1]

C25_Witness ==
  /\ food # None
  /\ food[1].pc = "done"
  /\ food[1].type = Some(<<"a", " ", "b">>)
  /\ HasElements(food[1].upstream)
  /\ Len(food[1].upstream.json.value.elements[1]) = 2
  /\ food[1].upstream.json.value.elements[1][1].type = "way"
  /\ food[1].upstream.json.value.elements[1][2].id = 4
  /\ Len(food[1].result[1].value) = 1
  /\ food[1].result[1].value[1].tags = <<>>

====
